---- MODULE Spec2Model ----
(***************************************************************************)
(* Futures trade simulation of services/futures_backtest_service.py, and   *)
(* the optimization schedulers of services/per_coin_optimizer.py and       *)
(* services/optimizer_service.py that run it from worker threads.          *)
(*                                                                         *)
(* Numbers.  The program computes in binary floating point; the model      *)
(* computes in exact arithmetic with one rounding rule:                    *)
(*   - prices and price levels are integers in hundredths of a price unit; *)
(*     the input prices are whole units, so every percent level            *)
(*     entry * (1 +/- k/100) with integer k is exact;                      *)
(*   - percentages (tp_base, stop_loss, margin_ratio, close_percent,       *)
(*     tp_close_percent) are integers in percent, so the program's 1.0     *)
(*     close fraction is 100 and its tp_close_percent 0.5 is 50;           *)
(*   - quantities (size, remaining_size) are exact rationals [n, d];       *)
(*   - the balance is an integer number of ticks: an amount of money that  *)
(*     is booked or reported (pnl, commission, unrealized pnl) is rounded  *)
(*     down to a tick, the amounts it is computed from are exact;          *)
(*   - drawdown ratios are exact rationals [n, d].                         *)
(***************************************************************************)
EXTENDS Integers, Sequences, FiniteSets, TLC

(* Number of bars (rows of the signal series) of one run. *)
MaxBars == 4

(***************************************************************************)
(* Exact rationals                                                         *)
(***************************************************************************)
Abs(x) == IF x < 0 THEN -x ELSE x

Max(a, b) == IF a >= b THEN a ELSE b

Min(a, b) == IF a <= b THEN a ELSE b

RECURSIVE Gcd(_, _)
Gcd(a, b) == IF b = 0 THEN a ELSE Gcd(b, a % b)

(* The rational n/d in lowest terms with a positive denominator. *)
Rat(n, d) ==
    LET g == Gcd(Abs(n), Abs(d))
        s == IF d < 0 THEN -1 ELSE 1
    IN  IF n = 0 THEN [n |-> 0, d |-> 1]
        ELSE [n |-> s * (n \div g), d |-> s * (d \div g)]

RatMul(x, y) ==
    LET a == Rat(x.n, y.d)
        b == Rat(y.n, x.d)
    IN  Rat(a.n * b.n, a.d * b.d)

(* Rounding of a rational amount of money to a whole tick. *)
Round(x) == x.n \div x.d

(* a/b < c/d for a, c >= 0 and b, d > 0, without forming the products. *)
RECURSIVE FracLess(_, _, _, _)
FracLess(a, b, c, d) ==
    IF (a \div b) # (c \div d) THEN (a \div b) < (c \div d)
    ELSE IF c % d = 0 THEN FALSE
    ELSE IF a % b = 0 THEN TRUE
    ELSE FracLess(d, c % d, b, a % b)

RatLess(x, y) == FracLess(x.n, x.d, y.n, y.d)

RatMax(x, y) == IF RatLess(x, y) THEN y ELSE x

(***************************************************************************)
(* Inputs of run_backtest                                                  *)
(***************************************************************************)
(* tp_sl_params: percentages. *)
TpSlInputs ==
    { [tp_base |-> 1, stop_loss |-> 2, max_tps |-> 2, tp_close |-> 50],
      [tp_base |-> 1, stop_loss |-> 2, max_tps |-> 2, tp_close |-> 100],
      [tp_base |-> 2, stop_loss |-> 1, max_tps |-> 3, tp_close |-> 25] }

(* initial_balance (ticks), leverage, margin_ratio (percent). *)
TradingInputs ==
    { [balance |-> 10000, leverage |-> 1,  margin |-> 100],
      [balance |-> 10000, leverage |-> 10, margin |-> 10],
      [balance |-> 10000, leverage |-> 10, margin |-> 50],
      [balance |-> 10000, leverage |-> 1,  margin |-> 1000] }

(* row['price'] in hundredths, row['signal']. *)
Prices == {9800, 10000, 10200}

Signals == {-1, 0, 1}

(* 0.04 % per side, in units of 1/10000. *)
commission_rate == 4

VARIABLES
    tp_base_percent, sl_percent, max_tps, tp_close_percent,
    initial_balance, leverage, margin_ratio,
    pc,
    timestamp, current_price, signal,
    should_close, close_reason, close_percent,
    balance, position,
    total_trades, winning_trades, total_pnl, max_drawdown, peak_balance,
    trades, equity_curve, tp_sl_levels, statistics

(* The tp_sl_params argument of the run_backtest call that is modelled. *)
VARIABLES tp_sl_params

(* The optimizer object: tier "per_coin" is a PerCoinOptimizer, tier       *)
(* "single" an OptimizerService.  Attributes keep their names; callers are *)
(* the threads that serve the API requests, runs the optimization threads, *)
(* tasks the futures of the worker pools.                                  *)
VARIABLES
    tier,
    is_running, symbols_queue, completed_symbols, failed_symbols,
    best_results, total_symbols, current_symbol, current_symbol_index,
    current_symbol_progress, total_combinations, optimization_thread,
    results_lock, coin_settings,
    callers, calls, runs, tasks

params == <<tp_base_percent, sl_percent, max_tps, tp_close_percent,
            initial_balance, leverage, margin_ratio>>

vars == <<tp_base_percent, sl_percent, max_tps, tp_close_percent,
          initial_balance, leverage, margin_ratio,
          pc, timestamp, current_price, signal,
          should_close, close_reason, close_percent,
          balance, position,
          total_trades, winning_trades, total_pnl, max_drawdown, peak_balance,
          trades, equity_curve, tp_sl_levels, statistics>>

(* The attributes of the optimizer object that a status request reports or *)
(* a start call resets. *)
in_flight == <<symbols_queue, completed_symbols, failed_symbols, best_results,
               total_symbols, current_symbol, current_symbol_index,
               current_symbol_progress, total_combinations,
               optimization_thread>>

sched == <<tier, is_running, in_flight, results_lock, coin_settings,
           callers, calls, runs, tasks>>

(* The helper calls that are followed on their own: a call of              *)
(* _calculate_optimization_score, a call of generate_parameter_combinations *)
(* and a call of fetch_all_symbols_data_bulk, each with its arguments, its *)
(* position and what it has returned.                                      *)
VARIABLES scoring, generation, bulk_fetch

(* The same for the calls of _get_or_generate_combinations with the        *)
(* combinations cache, the calls of get_market_data with the cache         *)
(* directory, and a call of generate_signals.                              *)
VARIABLES combo_cache, market_data, signal_call

caches == <<combo_cache, market_data, signal_call>>

helpers == <<scoring, generation, bulk_fetch, caches>>

allvars == <<vars, tp_sl_params, sched, helpers>>

(***************************************************************************)
(* Position                                                                *)
(***************************************************************************)
Zero == [n |-> 0, d |-> 1]

(* entry_time None *)
None == 0

FlatPosition ==
    [size |-> Zero, entry_price |-> 0, entry_time |-> None, direction |-> 0,
     remaining_size |-> Zero, tps_hit |-> <<>>, trailing_stop |-> 0,
     tp_levels |-> <<>>, sl_level |-> 0]

(* f"TP{level}" *)
TPNames == <<"TP1", "TP2", "TP3", "TP4">>

(* close_reason.startswith('TP') *)
StartsWithTP(reason) == \E i \in 1..Len(TPNames) : reason = TPNames[i]

(* entry_price * (1 + sign * percent / 100) *)
PercentLevel(entry_price, sign, percent) ==
    (entry_price * (100 + sign * percent)) \div 100

(* The ladder with the stop loss placed on the side of the take profits. *)
CalculateTpSlLevels_SlOnTpSide(entry_price, direction) ==
    [tp_levels |->
        [i \in 1..max_tps |->
            [level |-> i,
             price |-> IF direction = 1
                       THEN PercentLevel(entry_price, 1, tp_base_percent * i)
                       ELSE PercentLevel(entry_price, -1, tp_base_percent * i),
             percent |-> tp_base_percent * i,
             hit |-> FALSE]],
     sl_level |-> IF direction = 1
                  THEN PercentLevel(entry_price, 1, sl_percent)
                  ELSE PercentLevel(entry_price, -1, sl_percent)]

(* The ladder with every level at tp_base_percent: the factor i is lost. *)
CalculateTpSlLevels_FlatLadder(entry_price, direction) ==
    [tp_levels |->
        [i \in 1..max_tps |->
            [level |-> i,
             price |-> IF direction = 1
                       THEN PercentLevel(entry_price, 1, tp_base_percent)
                       ELSE PercentLevel(entry_price, -1, tp_base_percent),
             percent |-> tp_base_percent,
             hit |-> FALSE]],
     sl_level |-> IF direction = 1
                  THEN PercentLevel(entry_price, -1, sl_percent)
                  ELSE PercentLevel(entry_price, 1, sl_percent)]

(* Lines 203-229 *)
CalculateTpSlLevels(entry_price, direction) ==
    [tp_levels |->
        [i \in 1..max_tps |->
            [level |-> i,
             price |-> IF direction = 1
                       THEN PercentLevel(entry_price, 1, tp_base_percent * i)
                       ELSE PercentLevel(entry_price, -1, tp_base_percent * i),
             percent |-> tp_base_percent * i,
             hit |-> FALSE]],
     sl_level |-> IF direction = 1
                  THEN PercentLevel(entry_price, -1, sl_percent)
                  ELSE PercentLevel(entry_price, 1, sl_percent)]

(* Lines 266-271 *)
GetFixedSLLevel(entry_price, direction) ==
    IF direction = 1
    THEN PercentLevel(entry_price, -1, sl_percent)
    ELSE PercentLevel(entry_price, 1, sl_percent)

(* The trailing stop the exit check uses: never worse than the fixed SL. *)
EffectiveTrailingStop(pos) ==
    LET fixed_sl == GetFixedSLLevel(pos.entry_price, pos.direction)
    IN  IF pos.direction = 1
        THEN Max(pos.trailing_stop, fixed_sl)
        ELSE Min(pos.trailing_stop, fixed_sl)

(* The levels the price is strictly beyond: a price at a level is no hit. *)
CrossedUnhit_Strict(pos, price) ==
    { i \in 1..Len(pos.tp_levels) :
        /\ ~pos.tp_levels[i].hit
        /\ \/ pos.direction = 1 /\ price > pos.tp_levels[i].price
           \/ pos.direction = -1 /\ price < pos.tp_levels[i].price }

(* Indexes of the TP levels that are not hit and that the price has crossed. *)
CrossedUnhit(pos, price) ==
    { i \in 1..Len(pos.tp_levels) :
        /\ ~pos.tp_levels[i].hit
        /\ \/ pos.direction = 1 /\ price >= pos.tp_levels[i].price
           \/ pos.direction = -1 /\ price <= pos.tp_levels[i].price }

MinOf(S) == CHOOSE x \in S : \A y \in S : x <= y

(* The exit check with the trailing stop tested before the fixed stop loss. *)
CheckExitConditions_TrailingFirst(pos, price) ==
    LET fixed_sl == GetFixedSLLevel(pos.entry_price, pos.direction)
        crossed == CrossedUnhit(pos, price)
    IN  IF /\ pos.trailing_stop > 0
           /\ \/ pos.direction = 1 /\ price <= EffectiveTrailingStop(pos)
              \/ pos.direction # 1 /\ price >= EffectiveTrailingStop(pos)
        THEN [should_close |-> TRUE, close_reason |-> "Trailing Stop",
              close_percent |-> 100, position |-> pos]
        ELSE IF \/ pos.direction = 1 /\ price <= fixed_sl
                \/ pos.direction = -1 /\ price >= fixed_sl
        THEN [should_close |-> TRUE, close_reason |-> "Stop Loss",
              close_percent |-> 100, position |-> pos]
        ELSE IF crossed # {}
        THEN LET i == MinOf(crossed)
             IN  [should_close |-> TRUE,
                  close_reason |-> TPNames[pos.tp_levels[i].level],
                  close_percent |-> tp_close_percent,
                  position |->
                    [pos EXCEPT !.tp_levels[i].hit = TRUE,
                                !.tps_hit = Append(@, pos.tp_levels[i].level)]]
        ELSE [should_close |-> FALSE, close_reason |-> "",
              close_percent |-> 0, position |-> pos]

RECURSIVE AppendAll(_, _)
AppendAll(seq, S) ==
    IF S = {} THEN seq ELSE AppendAll(Append(seq, MinOf(S)), S \ {MinOf(S)})

(* The exit check without the return inside the TP loop: every crossed level *)
(* is marked hit on the same bar.                                            *)
CheckExitConditions_AllCrossed(pos, price) ==
    LET fixed_sl == GetFixedSLLevel(pos.entry_price, pos.direction)
        crossed == CrossedUnhit(pos, price)
    IN  IF \/ pos.direction = 1 /\ price <= fixed_sl
           \/ pos.direction = -1 /\ price >= fixed_sl
        THEN [should_close |-> TRUE, close_reason |-> "Stop Loss",
              close_percent |-> 100, position |-> pos]
        ELSE IF /\ pos.trailing_stop > 0
                /\ \/ pos.direction = 1 /\ price <= EffectiveTrailingStop(pos)
                   \/ pos.direction # 1 /\ price >= EffectiveTrailingStop(pos)
        THEN [should_close |-> TRUE, close_reason |-> "Trailing Stop",
              close_percent |-> 100, position |-> pos]
        ELSE IF crossed # {}
        THEN [should_close |-> TRUE,
              close_reason |-> TPNames[pos.tp_levels[MinOf(crossed)].level],
              close_percent |-> tp_close_percent,
              position |->
                [pos EXCEPT
                   !.tp_levels = [i \in 1..Len(pos.tp_levels) |->
                                    IF i \in crossed
                                    THEN [pos.tp_levels[i] EXCEPT !.hit = TRUE]
                                    ELSE pos.tp_levels[i]],
                   !.tps_hit = AppendAll(@, crossed)]]
        ELSE [should_close |-> FALSE, close_reason |-> "",
              close_percent |-> 0, position |-> pos]

(* Result [should_close, close_reason, close_percent] and the position as    *)
(* the check leaves it (a TP hit marks the level and appends to tps_hit).    *)
CheckExitConditions(pos, price) ==
    LET fixed_sl == GetFixedSLLevel(pos.entry_price, pos.direction)
        crossed == CrossedUnhit(pos, price)
    IN  IF \/ pos.direction = 1 /\ price <= fixed_sl
           \/ pos.direction = -1 /\ price >= fixed_sl
        THEN [should_close |-> TRUE, close_reason |-> "Stop Loss",
              close_percent |-> 100, position |-> pos]
        ELSE IF /\ pos.trailing_stop > 0
                /\ \/ pos.direction = 1 /\ price <= EffectiveTrailingStop(pos)
                   \/ pos.direction # 1 /\ price >= EffectiveTrailingStop(pos)
        THEN [should_close |-> TRUE, close_reason |-> "Trailing Stop",
              close_percent |-> 100, position |-> pos]
        ELSE IF crossed # {}
        THEN LET i == MinOf(crossed)
             IN  [should_close |-> TRUE,
                  close_reason |-> TPNames[pos.tp_levels[i].level],
                  close_percent |-> tp_close_percent,
                  position |->
                    [pos EXCEPT !.tp_levels[i].hit = TRUE,
                                !.tps_hit = Append(@, pos.tp_levels[i].level)]]
        ELSE [should_close |-> FALSE, close_reason |-> "",
              close_percent |-> 0, position |-> pos]

(* The trailing stop placed at the level just hit, not at the one before. *)
CalculateTrailingStop_AtHitLevel(pos, price) ==
    LET tps_hit_count == Len(pos.tps_hit)
        fixed_sl == GetFixedSLLevel(pos.entry_price, pos.direction)
        prev_tp_percent == tp_base_percent * tps_hit_count
    IN  IF tps_hit_count = 1
        THEN IF pos.direction = 1
             THEN Max(pos.entry_price, fixed_sl)
             ELSE Min(pos.entry_price, fixed_sl)
        ELSE IF tps_hit_count >= 2
        THEN IF pos.direction = 1
             THEN Max(PercentLevel(pos.entry_price, 1, prev_tp_percent), fixed_sl)
             ELSE Min(PercentLevel(pos.entry_price, -1, prev_tp_percent), fixed_sl)
        ELSE 0

(* Lines 273-301 *)
CalculateTrailingStop(pos, price) ==
    LET tps_hit_count == Len(pos.tps_hit)
        fixed_sl == GetFixedSLLevel(pos.entry_price, pos.direction)
        prev_tp_percent == tp_base_percent * (tps_hit_count - 1)
    IN  IF tps_hit_count = 1
        THEN IF pos.direction = 1
             THEN Max(pos.entry_price, fixed_sl)
             ELSE Min(pos.entry_price, fixed_sl)
        ELSE IF tps_hit_count >= 2
        THEN IF pos.direction = 1
             THEN Max(PercentLevel(pos.entry_price, 1, prev_tp_percent), fixed_sl)
             ELSE Min(PercentLevel(pos.entry_price, -1, prev_tp_percent), fixed_sl)
        ELSE 0

(* [net_pnl, commission] of closing close_pct percent of the remaining size. *)
ClosePosition(pos, exit_price, close_pct, lev) ==
    LET size_to_close == RatMul(pos.remaining_size, Rat(close_pct, 100))
        (* price_change_percent / 100 *)
        price_change ==
            IF pos.direction = 1
            THEN Rat(exit_price - pos.entry_price, pos.entry_price)
            ELSE Rat(pos.entry_price - exit_price, pos.entry_price)
        position_value == RatMul(size_to_close, Rat(pos.entry_price, 1))
        pnl == Round(RatMul(RatMul(price_change, position_value), Rat(lev, 1)))
        commission ==
            Round(RatMul(position_value, Rat(commission_rate * 2, 10000)))
    IN  [net_pnl |-> pnl - commission, commission |-> commission]

(* The bookkeeping with total_pnl assigned instead of accumulated. *)
BookClose_TotalAssigned(acct, pnl) ==
    [balance |-> acct.balance + pnl,
     total_pnl |-> pnl,
     total_trades |-> acct.total_trades + 1,
     winning_trades |-> IF pnl > 0 THEN acct.winning_trades + 1
                        ELSE acct.winning_trades]

(* Lines 77-82: balance, total_pnl and the trade counters after a close. *)
BookClose(acct, pnl) ==
    [balance |-> acct.balance + pnl,
     total_pnl |-> acct.total_pnl + pnl,
     total_trades |-> acct.total_trades + 1,
     winning_trades |-> IF pnl > 0 THEN acct.winning_trades + 1
                        ELSE acct.winning_trades]

(* The record with the bar of the exit written as entry_time too. *)
TradeRecord_EntryAtExit(pos, ts, price, pnl, commission, reason, close_pct) ==
    [entry_time |-> ts, exit_time |-> ts,
     entry_price |-> pos.entry_price, exit_price |-> price,
     position |-> IF pos.direction = 1 THEN "Long" ELSE "Short",
     pnl |-> pnl, commission |-> commission,
     exit_reason |-> reason, size_closed |-> close_pct]

(* Lines 85-95: the record appended to results['trades']. *)
TradeRecord(pos, ts, price, pnl, commission, reason, close_pct) ==
    [entry_time |-> pos.entry_time, exit_time |-> ts,
     entry_price |-> pos.entry_price, exit_price |-> price,
     position |-> IF pos.direction = 1 THEN "Long" ELSE "Short",
     pnl |-> pnl, commission |-> commission,
     exit_reason |-> reason, size_closed |-> close_pct]

(* The update without the reset of a fully closed position. *)
UpdatePositionAfterClose_NoReset(pos, reason, close_pct, price) ==
    LET p1 == [pos EXCEPT
                 !.remaining_size = RatMul(@, Rat(100 - close_pct, 100))]
    IN  IF StartsWithTP(reason) /\ close_pct < 100
        THEN [p1 EXCEPT !.trailing_stop = CalculateTrailingStop(p1, price)]
        ELSE p1

(* The update that also resets the position once the whole ladder is hit. *)
UpdatePositionAfterClose_ResetAtLadderEnd(pos, reason, close_pct, price) ==
    IF close_pct < 100 /\ Len(pos.tps_hit) < Len(pos.tp_levels)
    THEN LET p1 == [pos EXCEPT
                      !.remaining_size = RatMul(@, Rat(100 - close_pct, 100))]
         IN  IF StartsWithTP(reason)
             THEN [p1 EXCEPT !.trailing_stop = CalculateTrailingStop(p1, price)]
             ELSE p1
    ELSE FlatPosition

(* Lines 101-116: the position after a close of close_pct percent. *)
UpdatePositionAfterClose(pos, reason, close_pct, price) ==
    IF close_pct < 100
    THEN LET p1 == [pos EXCEPT
                      !.remaining_size = RatMul(@, Rat(100 - close_pct, 100))]
         IN  IF StartsWithTP(reason)
             THEN [p1 EXCEPT !.trailing_stop = CalculateTrailingStop(p1, price)]
             ELSE p1
    ELSE FlatPosition

(* Line 121: margin_amount = balance * (margin_ratio / 100) *)
MarginAmount(bal) == Rat(bal * margin_ratio, 100)

(* x >= y for an integer x and a rational y. *)
GeqRat(x, y) == x * y.d >= y.n

(* Line 119 *)
EntryCheck(sig, pos) == sig # 0 /\ pos.size.n = 0

(* The entry without the margin check. *)
MarginCheck_Skipped(bal) == TRUE

(* Line 125 *)
MarginCheck(bal) == GeqRat(bal, MarginAmount(bal))

(* Lines 121-139: the position opened at price in direction sig. *)
NewPosition(bal, price, sig, ts) ==
    LET position_value == RatMul(MarginAmount(bal), Rat(leverage, 1))
        position_size == RatMul(position_value, Rat(1, price))
        lv == CalculateTpSlLevels(price, sig)
    IN  [size |-> position_size, entry_price |-> price, entry_time |-> ts,
         direction |-> sig, remaining_size |-> position_size,
         tps_hit |-> <<>>, trailing_stop |-> 0,
         tp_levels |-> lv.tp_levels, sl_level |-> lv.sl_level]

(* Lines 142-148 *)
TpSlRecord(pos, ts) ==
    [timestamp |-> ts, entry_price |-> pos.entry_price,
     direction |-> pos.direction, tp_levels |-> pos.tp_levels,
     sl_level |-> pos.sl_level]

(* Lines 137, 146, 260: the record of results['tp_sl_levels'] holds the very *)
(* list that is position['tp_levels'], so a level marked hit shows in the    *)
(* record of the position it belongs to.                                     *)
ShareTpLevels(levels, pos) ==
    IF pos.size.n # 0 /\ Len(levels) > 0
    THEN [levels EXCEPT ![Len(levels)].tp_levels = pos.tp_levels]
    ELSE levels

(* Lines 153-159 *)
UnrealizedPnl(pos, price, bal) ==
    IF pos.size.n # 0
    THEN LET price_change == IF pos.direction = -1
                             THEN -(price - pos.entry_price)
                             ELSE price - pos.entry_price
         IN  Round(RatMul(RatMul(Rat(price_change, pos.entry_price),
                                 Rat(leverage, 1)),
                          MarginAmount(bal)))
    ELSE 0

(* Lines 169-174 with the bar's drawdown stored in place of the maximum. *)
TrackDrawdown_LastDrawdown(peak, maxdd, equity) ==
    IF equity > peak
    THEN [peak_balance |-> equity, max_drawdown |-> maxdd]
    ELSE [peak_balance |-> peak,
          max_drawdown |-> Rat(peak - equity, peak)]

(* Lines 169-174 *)
TrackDrawdown(peak, maxdd, equity) ==
    IF equity > peak
    THEN [peak_balance |-> equity, max_drawdown |-> maxdd]
    ELSE [peak_balance |-> peak,
          max_drawdown |-> RatMax(maxdd, Rat(peak - equity, peak))]

(* Lines 176-197 *)
Statistics ==
    [initial_balance |-> initial_balance,
     final_balance |-> balance,
     total_return |-> RatMul(Rat(balance - initial_balance, initial_balance),
                             Rat(100, 1)),
     total_pnl |-> total_pnl,
     total_trades |-> total_trades,
     winning_trades |-> winning_trades,
     win_rate |-> IF total_trades > 0
                  THEN RatMul(Rat(winning_trades, total_trades), Rat(100, 1))
                  ELSE Zero,
     max_drawdown |-> RatMul(max_drawdown, Rat(100, 1)),
     leverage_used |-> leverage]

(***************************************************************************)
(* The optimizer object and its threads                                    *)
(***************************************************************************)
(* Number of API calls (start, forced start, stop, status) of a behaviour. *)
MaxCalls == 2

(* The threads that serve API requests. *)
Callers == {"c1", "c2"}

Symbols == {"A", "B", "C", "D", "E"}

(* The symbol lists of the start requests. *)
SymbolLists == { <<>>, <<"A", "B">>, <<"B", "C", "A">> }

(* The symbol list of the start request whose run is followed through its  *)
(* batches: with BatchSize 2 a batch of two symbols and a batch of one.    *)
LongList == <<"A", "B", "C">>

(* The parameter combinations: indexes into the longest list that the      *)
(* param_ranges of a request generate.                                     *)
Combinations == {1, 2}

(* optimization_params['max_workers'] of the requests, where nothing else   *)
(* is said.                                                                *)
max_workers == 1

(* The largest optimization_params['max_workers'] of a request. *)
MaxWorkers == 2

(* Line 515 *)
BatchSize(workers) == Min(workers * 2, 20)

(* The futures of the pool of a batch, in the order of their submission    *)
(* (lines 534-542): a symbol that the list names twice has two futures.    *)
Futures == 1..BatchSize(MaxWorkers)

(* What run_single_backtest returns for combination k: None after an       *)
(* exception (backtest_runner.py lines 62-64), otherwise the record of     *)
(* lines 47-60, of which the parameters (k) and the score are kept.        *)
NoResult == [ok |-> FALSE, combination |-> 0, score |-> 0]

BacktestResult(k, score) == [ok |-> TRUE, combination |-> k, score |-> score]

(* threading.Thread objects are numbered in the order of their creation;   *)
(* optimization_thread = None is NoThread.                                 *)
NoThread == 0

(* The holder of results_lock: a caller, an optimization thread, nobody. *)
Unlocked == ""

ThreadNames == <<"t1", "t2", "t3", "t4", "t5">>

RunIds == 1..MaxCalls

(* A stored setting: optimization_score, and whether the stored value is a *)
(* number (a stored null or string makes the comparison with 0 raise).     *)
Setting(score) == [optimization_score |-> score, comparable |-> TRUE]

NotANumber == [optimization_score |-> 0, comparable |-> FALSE]

(* coin_settings_manager.coin_settings as loaded from the settings file. *)
StoredSettings ==
    { << >>,
      [s \in {"A"} |-> Setting(5)],
      [s \in {"A", "B"} |-> IF s = "A" THEN Setting(5) ELSE Setting(-1)],
      [s \in {"A", "B", "C"} |-> Setting(3)],
      [s \in {"A", "C"} |-> IF s = "A" THEN Setting(5) ELSE NotANumber] }

(* coin_settings_manager.py lines 22-40 and 63-71 *)
LoadCoinSettings(symbol) ==
    IF symbol \in DOMAIN coin_settings THEN coin_settings[symbol]
    ELSE Setting(0)

(* A request is served by the first thread that is free: the second takes   *)
(* a call only while the first is inside one.                              *)
Free(c) ==
    /\ callers[c].pc = "idle"
    /\ c = "c2" => callers["c1"].pc # "idle"

(* What a call returned: (success, message) of the start calls, the        *)
(* boolean of stop in success. *)
Returned(success, message) == [success |-> success, message |-> message]

(* A thread that serves requests: op is the call it serves or has served   *)
(* last ("start", "force", "stop", "status"), ret what that call returned. *)
IdleCaller ==
    [pc |-> "idle", op |-> "", symbols |-> <<>>, combinations |-> {},
     force |-> FALSE, dates_ok |-> FALSE, ret |-> Returned(FALSE, "")]

(* An optimization thread that does not exist yet. *)
NoRun ==
    [pc |-> "none", symbols |-> <<>>, combinations |-> {},
     valid_symbols |-> <<>>, max_workers |-> max_workers,
     batch_index |-> 0, batch_symbols |-> <<>>, broke |-> FALSE]

(* A future that was not submitted: combos and returned are the futures of  *)
(* its pool of combinations and what they returned, seen the combinations  *)
(* that as_completed has handed over, results the list of line 627 (in the *)
(* future that is done: as line 659 has sorted it), best the result that   *)
(* the future returns.                                                     *)
NoTask ==
    [state |-> "none", combos |-> [k \in Combinations |-> "none"],
     returned |-> [k \in Combinations |-> NoResult],
     seen |-> {}, results |-> <<>>, broke |-> FALSE, success |-> FALSE,
     best |-> NoResult, handled |-> FALSE]

(* The object after __init__: per_coin_optimizer.py lines 20-48,           *)
(* optimizer_service.py lines 14-31.                                       *)
Constructed(t, stored) ==
    /\ tier = t
    /\ is_running = FALSE
    /\ symbols_queue = <<>>
    /\ completed_symbols = <<>>
    /\ failed_symbols = <<>>
    /\ best_results = << >>
    /\ total_symbols = 0
    /\ current_symbol = ""
    /\ current_symbol_index = 0
    /\ current_symbol_progress = 0
    /\ total_combinations = 0
    /\ optimization_thread = NoThread
    /\ results_lock = Unlocked
    /\ coin_settings = stored
    /\ callers = [c \in Callers |-> IdleCaller]
    /\ calls = 0
    /\ runs = [r \in RunIds |-> NoRun]
    /\ tasks = [r \in RunIds, i \in Futures |-> NoTask]

(* The arguments of a run_backtest call that no other thread interferes    *)
(* with: lines 27-31 have stored them in the attributes.                   *)
OwnParams ==
    tp_sl_params = [tp_base |-> tp_base_percent, stop_loss |-> sl_percent,
                    max_tps |-> max_tps, tp_close |-> tp_close_percent]

(* No optimizer object was constructed: no request threads, no            *)
(* optimization thread, no pool.                                           *)
NoOptimizer ==
    /\ tier = "none"
    /\ is_running = FALSE
    /\ symbols_queue = <<>>
    /\ completed_symbols = <<>>
    /\ failed_symbols = <<>>
    /\ best_results = << >>
    /\ total_symbols = 0
    /\ current_symbol = ""
    /\ current_symbol_index = 0
    /\ current_symbol_progress = 0
    /\ total_combinations = 0
    /\ optimization_thread = NoThread
    /\ results_lock = Unlocked
    /\ coin_settings = << >>
    /\ callers = << >>
    /\ calls = 0
    /\ runs = << >>
    /\ tasks = << >>

(* No helper call is followed. *)
NoScoring == [pc |-> "none"]

NoGeneration == [pc |-> "none"]

NoBulkFetch == [pc |-> "none"]

NoComboCache == [pc |-> "none"]

NoMarketData == [pc |-> "none"]

NoSignalCall == [pc |-> "none"]

NoCacheCall ==
    /\ combo_cache = NoComboCache
    /\ market_data = NoMarketData
    /\ signal_call = NoSignalCall

NoHelperCall ==
    /\ scoring = NoScoring
    /\ generation = NoGeneration
    /\ bulk_fetch = NoBulkFetch
    /\ NoCacheCall

(* A single run_backtest call on a service of its own, no optimizer. *)
Standalone == OwnParams /\ NoOptimizer /\ NoHelperCall

(***************************************************************************)
(* The run                                                                 *)
(***************************************************************************)
Init ==
    /\ \E t \in TpSlInputs :
        /\ tp_base_percent = t.tp_base
        /\ sl_percent = t.stop_loss
        /\ max_tps = t.max_tps
        /\ tp_close_percent = t.tp_close
    /\ \E t \in TradingInputs :
        /\ initial_balance = t.balance
        /\ leverage = t.leverage
        /\ margin_ratio = t.margin
        /\ balance = t.balance
        /\ peak_balance = t.balance
    /\ pc = "loop"
    /\ timestamp = 0
    /\ current_price = 0
    /\ signal = 0
    /\ should_close = FALSE
    /\ close_reason = ""
    /\ close_percent = 0
    /\ position = FlatPosition
    /\ total_trades = 0
    /\ winning_trades = 0
    /\ total_pnl = 0
    /\ max_drawdown = Zero
    /\ trades = <<>>
    /\ equity_curve = <<>>
    /\ tp_sl_levels = <<>>
    /\ statistics = [initial_balance |-> 0]
    /\ Standalone

(* One iteration of the loop of lines 62-174 on the row (price, sig).  The  *)
(* exit check's three results are the iteration's locals; on a bar that     *)
(* starts flat the check is not called and they are (FALSE, "", 0).         *)
Iteration(price, sig) ==
    /\ pc = "loop"
    /\ \E ts \in {timestamp + 1} :
       \E chk \in {IF position.size.n # 0
                   THEN CheckExitConditions(position, price)
                   ELSE [should_close |-> FALSE, close_reason |-> "",
                         close_percent |-> 0, position |-> position]} :
       \E res \in {IF chk.should_close
                   THEN ClosePosition(chk.position, price, chk.close_percent,
                                      leverage)
                   ELSE [net_pnl |-> 0, commission |-> 0]} :
       \E acct \in {IF chk.should_close
                    THEN BookClose([balance |-> balance,
                                    total_pnl |-> total_pnl,
                                    total_trades |-> total_trades,
                                    winning_trades |-> winning_trades],
                                   res.net_pnl)
                    ELSE [balance |-> balance, total_pnl |-> total_pnl,
                          total_trades |-> total_trades,
                          winning_trades |-> winning_trades]} :
       \E pos1 \in {IF chk.should_close
                    THEN UpdatePositionAfterClose(chk.position,
                                                  chk.close_reason,
                                                  chk.close_percent, price)
                    ELSE chk.position} :
       \E opens \in {EntryCheck(sig, pos1) /\ MarginCheck(acct.balance)} :
       \E pos2 \in {IF opens THEN NewPosition(acct.balance, price, sig, ts)
                    ELSE pos1} :
       \E unrealized_pnl \in {UnrealizedPnl(pos2, price, acct.balance)} :
       \E dd \in {TrackDrawdown(peak_balance, max_drawdown,
                                acct.balance + unrealized_pnl)} :
        /\ timestamp' = ts
        /\ current_price' = price
        /\ signal' = sig
        /\ should_close' = chk.should_close
        /\ close_reason' = chk.close_reason
        /\ close_percent' = chk.close_percent
        /\ balance' = acct.balance
        /\ total_pnl' = acct.total_pnl
        /\ total_trades' = acct.total_trades
        /\ winning_trades' = acct.winning_trades
        /\ trades' = IF chk.should_close
                     THEN Append(trades,
                                 TradeRecord(chk.position, ts, price,
                                             res.net_pnl, res.commission,
                                             chk.close_reason,
                                             chk.close_percent))
                     ELSE trades
        /\ position' = pos2
        /\ tp_sl_levels' = IF opens
                           THEN Append(ShareTpLevels(tp_sl_levels, chk.position),
                                       TpSlRecord(pos2, ts))
                           ELSE ShareTpLevels(tp_sl_levels, chk.position)
        /\ equity_curve' = Append(equity_curve,
                                  [timestamp |-> ts, balance |-> acct.balance,
                                   unrealized_pnl |-> unrealized_pnl,
                                   equity |-> acct.balance + unrealized_pnl])
        /\ peak_balance' = dd.peak_balance
        /\ max_drawdown' = dd.max_drawdown
        /\ UNCHANGED <<params, pc, statistics, tp_sl_params, sched, helpers>>

(* An iteration of a run of at most MaxBars rows. *)
Bar(price, sig) == timestamp < MaxBars /\ Iteration(price, sig)

(* Lines 176-199: the loop is over, the statistics are computed. *)
ReturnResults ==
    /\ pc = "loop"
    /\ pc' = "done"
    /\ statistics' = Statistics
    /\ UNCHANGED <<params, timestamp, current_price, signal,
                   should_close, close_reason, close_percent,
                   balance, position, total_trades, winning_trades, total_pnl,
                   max_drawdown, peak_balance, trades, equity_curve,
                   tp_sl_levels, tp_sl_params, sched, helpers>>

RunBar == \E price \in Prices, sig \in Signals : Bar(price, sig)

Next == RunBar \/ ReturnResults

Spec == Init /\ [][Next]_vars

(***************************************************************************)
(* The entry of a run, over a wider range of tp_sl_params and prices       *)
(***************************************************************************)
(* Largest max_tps of the ladders built. *)
MaxLadder == 4

(* tp_base and stop_loss in percent. *)
LadderPercents == {1, 2, 5}

(* Entry prices in hundredths: 1.00, 7.00, 100.00 and 333.00. *)
EntryPrices == {100, 700, 10000, 33300}

(* The state of lines 27-60 for the wider range of tp_sl_params. *)
LadderInit ==
    /\ tp_base_percent \in LadderPercents
    /\ sl_percent \in LadderPercents
    /\ max_tps \in 1..MaxLadder
    /\ tp_close_percent = 50
    /\ \E t \in TradingInputs :
        /\ initial_balance = t.balance
        /\ leverage = t.leverage
        /\ margin_ratio = t.margin
        /\ balance = t.balance
        /\ peak_balance = t.balance
    /\ pc = "loop"
    /\ timestamp = 0
    /\ current_price = 0
    /\ signal = 0
    /\ should_close = FALSE
    /\ close_reason = ""
    /\ close_percent = 0
    /\ position = FlatPosition
    /\ total_trades = 0
    /\ winning_trades = 0
    /\ total_pnl = 0
    /\ max_drawdown = Zero
    /\ trades = <<>>
    /\ equity_curve = <<>>
    /\ tp_sl_levels = <<>>
    /\ statistics = [initial_balance |-> 0]
    /\ Standalone

(* The first iteration of the loop on a row with a nonzero signal. *)
FirstEntry == \E price \in EntryPrices, sig \in {-1, 1} :
                 timestamp = 0 /\ Bar(price, sig)

LadderNext == FirstEntry \/ ReturnResults

LadderSpec == LadderInit /\ [][LadderNext]_vars

(***************************************************************************)
(* A run on a rising series: a long entry, then ScenarioBars rows each 1 % *)
(* above the row before it                                                 *)
(***************************************************************************)
(* Number of rising rows after the entry row. *)
ScenarioBars == 10

(* Entry prices in hundredths: 50.00, 100.00, 200.00 and 300.00. *)
ScenarioEntryPrices == {5000, 10000, 20000, 30000}

(* The price 1 % above p, to the hundredth. *)
Rise(p) == (p * 101) \div 100

(* tp_base 1.0, stop_loss 2.0, max_tps 3, tp_close 50 %, balance 10000,     *)
(* leverage 1, margin 100 %.                                                *)
ScenarioInit ==
    /\ tp_base_percent = 1
    /\ sl_percent = 2
    /\ max_tps = 3
    /\ tp_close_percent = 50
    /\ initial_balance = 10000
    /\ leverage = 1
    /\ margin_ratio = 100
    /\ balance = 10000
    /\ peak_balance = 10000
    /\ pc = "loop"
    /\ timestamp = 0
    /\ current_price = 0
    /\ signal = 0
    /\ should_close = FALSE
    /\ close_reason = ""
    /\ close_percent = 0
    /\ position = FlatPosition
    /\ total_trades = 0
    /\ winning_trades = 0
    /\ total_pnl = 0
    /\ max_drawdown = Zero
    /\ trades = <<>>
    /\ equity_curve = <<>>
    /\ tp_sl_levels = <<>>
    /\ statistics = [initial_balance |-> 0]
    /\ Standalone

(* The first row: a long signal. *)
ScenarioEntry == \E price \in ScenarioEntryPrices :
                    timestamp = 0 /\ Iteration(price, 1)

(* A later row: the price 1 % above the row before, any signal. *)
ScenarioRise == \E sig \in Signals :
                   /\ timestamp >= 1
                   /\ timestamp <= ScenarioBars
                   /\ Iteration(Rise(current_price), sig)

(* The series is read to its end before the results are returned. *)
ScenarioReturn == timestamp = ScenarioBars + 1 /\ ReturnResults

ScenarioNext == ScenarioEntry \/ ScenarioRise \/ ScenarioReturn

ScenarioSpec == ScenarioInit /\ [][ScenarioNext]_vars

(***************************************************************************)
(* Runs whose position is worth a multiple of the balance, so that one     *)
(* stop loss costs more than the balance                                   *)
(***************************************************************************)
(* initial_balance (ticks), leverage, margin_ratio (percent): the whole    *)
(* balance is the margin of a position of 10, resp. 20 times its value.    *)
LossInputs ==
    { [balance |-> 10000, leverage |-> 10, margin |-> 100],
      [balance |-> 100, leverage |-> 20, margin |-> 100] }

LossInit ==
    /\ \E t \in TpSlInputs :
        /\ tp_base_percent = t.tp_base
        /\ sl_percent = t.stop_loss
        /\ max_tps = t.max_tps
        /\ tp_close_percent = t.tp_close
    /\ \E t \in LossInputs :
        /\ initial_balance = t.balance
        /\ leverage = t.leverage
        /\ margin_ratio = t.margin
        /\ balance = t.balance
        /\ peak_balance = t.balance
    /\ pc = "loop"
    /\ timestamp = 0
    /\ current_price = 0
    /\ signal = 0
    /\ should_close = FALSE
    /\ close_reason = ""
    /\ close_percent = 0
    /\ position = FlatPosition
    /\ total_trades = 0
    /\ winning_trades = 0
    /\ total_pnl = 0
    /\ max_drawdown = Zero
    /\ trades = <<>>
    /\ equity_curve = <<>>
    /\ tp_sl_levels = <<>>
    /\ statistics = [initial_balance |-> 0]
    /\ Standalone

LossSpec == LossInit /\ [][Next]_vars

(***************************************************************************)
(* The API calls of the per-coin optimizer                                 *)
(***************************************************************************)
(* The call of caller c returns. *)
Return(c, op, success, message) ==
    callers' = [callers EXCEPT
                   ![c] = [IdleCaller EXCEPT
                              !.op = op,
                              !.ret = Returned(success, message)]]

StartOp(force) == IF force THEN "force" ELSE "start"

(* per_coin_optimizer.py lines 393-413: the comparison of a stored score    *)
(* that is not a number raises, and the handler returns the list it got.    *)
FilterUnoptimized(symbols) ==
    IF \E i \in 1..Len(symbols) : ~LoadCoinSettings(symbols[i]).comparable
    THEN symbols
    ELSE SelectSeq(symbols,
                   LAMBDA s : LoadCoinSettings(s).optimization_score <= 0)

(* The start call without the check of is_running. *)
StartCheck_Unchecked(c, symbols, combinations, force, dates_ok) ==
    /\ tier = "per_coin"
    /\ calls < MaxCalls
    /\ Free(c)
    /\ calls' = calls + 1
    /\ callers' = [callers EXCEPT
                      ![c] = [pc |-> "checked", op |-> StartOp(force),
                              symbols |-> symbols,
                              combinations |-> combinations,
                              force |-> force, dates_ok |-> dates_ok,
                              ret |-> Returned(FALSE, "")]]
    /\ UNCHANGED <<vars, tp_sl_params, helpers, tier, is_running, in_flight,
                   results_lock, coin_settings, runs, tasks>>

(* Lines 332-335 and 415-418: the check of is_running. *)
StartCheck(c, symbols, combinations, force, dates_ok) ==
    /\ tier = "per_coin"
    /\ calls < MaxCalls
    /\ Free(c)
    /\ calls' = calls + 1
    /\ IF is_running
       THEN Return(c, StartOp(force), FALSE,
                   "Per-coin optimization is already running")
       ELSE callers' = [callers EXCEPT
                           ![c] = [pc |-> "checked", op |-> StartOp(force),
                                   symbols |-> symbols,
                                   combinations |-> combinations,
                                   force |-> force, dates_ok |-> dates_ok,
                                   ret |-> Returned(FALSE, "")]]
    /\ UNCHANGED <<vars, tp_sl_params, helpers, tier, is_running, in_flight,
                   results_lock, coin_settings, runs, tasks>>

(* Lines 337-369 and 420-442: validation, the filter of a start that is not *)
(* forced, and the reset of the state.                                      *)
StartInit(c) ==
    /\ tier = "per_coin"
    /\ callers[c].pc = "checked"
    /\ LET symbols == callers[c].symbols
           worklist == IF callers[c].force THEN symbols
                       ELSE FilterUnoptimized(symbols)
           rejected(message) ==
               /\ Return(c, callers[c].op, FALSE, message)
               /\ UNCHANGED <<is_running, in_flight>>
       IN  IF Len(symbols) = 0
           THEN rejected("No symbols provided for optimization")
           ELSE IF Len(worklist) = 0
           THEN rejected("All symbols already have optimization results")
           ELSE IF ~callers[c].dates_ok
           THEN rejected("Invalid date range")
           ELSE /\ is_running' = TRUE
                /\ symbols_queue' = worklist
                /\ completed_symbols' = <<>>
                /\ failed_symbols' = <<>>
                /\ best_results' = << >>
                /\ total_symbols' = Len(worklist)
                /\ current_symbol_index' = 0
                /\ current_symbol_progress' = 0
                /\ callers' = [callers EXCEPT ![c].pc = "initialized",
                                              ![c].symbols = worklist]
                /\ UNCHANGED <<current_symbol, total_combinations,
                               optimization_thread>>
    /\ UNCHANGED <<vars, tp_sl_params, helpers, tier, results_lock, coin_settings,
                   calls, runs, tasks>>

(* The thread object that the next threading.Thread(...) creates. *)
NewThread == 1 + Cardinality({r \in RunIds : runs[r].pc # "none"})

(* Lines 371-387 and 444-460 when ok; when the combinations cannot be made  *)
(* (line 372 or 445 raises), the handler of lines 389-391 and 462-464.      *)
StartThread(c, ok) ==
    /\ tier = "per_coin"
    /\ callers[c].pc = "initialized"
    /\ IF ok
       THEN /\ total_combinations' = Cardinality(callers[c].combinations)
            /\ optimization_thread' = NewThread
            /\ runs' = [runs EXCEPT
                           ![NewThread] =
                               [NoRun EXCEPT
                                   !.pc = "fetch",
                                   !.symbols = callers[c].symbols,
                                   !.combinations = callers[c].combinations]]
            /\ Return(c, callers[c].op, TRUE, "Per-coin optimization started")
            /\ UNCHANGED is_running
       ELSE /\ is_running' = FALSE
            /\ Return(c, callers[c].op, FALSE,
                      "Error starting per-coin optimization")
            /\ UNCHANGED <<total_combinations, optimization_thread, runs>>
    /\ UNCHANGED <<vars, tp_sl_params, helpers, tier, symbols_queue, completed_symbols,
                   failed_symbols, best_results, total_symbols, current_symbol,
                   current_symbol_index, current_symbol_progress,
                   results_lock, coin_settings, calls, tasks>>

(* per_coin_optimizer.py lines 708-714, optimizer_service.py lines 422-428 *)
Stop(c) ==
    /\ calls < MaxCalls
    /\ Free(c)
    /\ calls' = calls + 1
    /\ is_running' = FALSE
    /\ Return(c, "stop", is_running, "")
    /\ UNCHANGED <<vars, tp_sl_params, helpers, tier, in_flight, results_lock,
                   coin_settings, runs, tasks>>

(* per_coin_optimizer.py line 718, optimizer_service.py line 432: the       *)
(* status request takes the lock.                                           *)
GetStatusEnter(c) ==
    /\ calls < MaxCalls
    /\ Free(c)
    /\ results_lock = Unlocked
    /\ calls' = calls + 1
    /\ results_lock' = c
    /\ callers' = [callers EXCEPT ![c].pc = "status", ![c].op = "status"]
    /\ UNCHANGED <<vars, tp_sl_params, helpers, tier, is_running, in_flight,
                   coin_settings, runs, tasks>>

(* Lines 719-750, resp. 433-440: the status is read and the lock released. *)
GetStatusExit(c) ==
    /\ callers[c].pc = "status"
    /\ results_lock' = Unlocked
    /\ Return(c, "status", is_running, "")
    /\ UNCHANGED <<vars, tp_sl_params, helpers, tier, is_running, in_flight,
                   coin_settings, calls, runs, tasks>>

(***************************************************************************)
(* The optimization thread of the per-coin optimizer and its worker pools  *)
(***************************************************************************)
(* The sets of symbols the bulk fetch has data for; the empty set is the   *)
(* fetch that returns nothing or raises.                                   *)
FetchOutcomes == { {}, {"A", "C"}, Symbols }

(* The set of the elements of a sequence. *)
Range(seq) == { seq[i] : i \in 1..Len(seq) }

(* result['score'] of the results of the backtests. *)
ResultScores == {4}

(* What the backtest of combination k can return. *)
Finished(k) == {NoResult} \cup { BacktestResult(k, score) : score \in ResultScores }

(* The futures of a pool that a worker is executing. *)
RunningTasks(r) == { i \in Futures : tasks[r, i].state = "running" }

RunningCombos(r, i) == { k \in Combinations : tasks[r, i].combos[k] = "running" }

(* A pool hands out its work items in the order of their submission. *)
FirstQueuedTask(r, i) ==
    /\ tasks[r, i].state = "queued"
    /\ \A j \in 1..(i - 1) : tasks[r, j].state # "queued"

FirstQueuedCombo(r, i, k) ==
    /\ tasks[r, i].combos[k] = "queued"
    /\ \A j \in Combinations : j < k => tasks[r, i].combos[j] # "queued"

(* Lines 466-493: max_workers is read from the optimization_params of the  *)
(* request (line 476) and the data of the symbols is fetched.  Without     *)
(* data (line 486) and on an exception (line 505) the thread goes to its   *)
(* finally.                                                                *)
RunFetch(r, available, workers) ==
    /\ runs[r].pc = "fetch"
    /\ IF available = {}
       THEN /\ runs' = [runs EXCEPT ![r].pc = "finally"]
            /\ UNCHANGED total_symbols
       ELSE LET valid_symbols ==
                    SelectSeq(runs[r].symbols, LAMBDA s : s \in available)
            IN  /\ total_symbols' = Len(valid_symbols)
                /\ runs' = [runs EXCEPT ![r].pc = "batch_loop",
                                        ![r].valid_symbols = valid_symbols,
                                        ![r].max_workers = workers,
                                        ![r].batch_index = 0]
    /\ UNCHANGED <<vars, tp_sl_params, helpers, tier, is_running, symbols_queue,
                   completed_symbols, failed_symbols, best_results,
                   current_symbol, current_symbol_index,
                   current_symbol_progress, total_combinations,
                   optimization_thread, results_lock, coin_settings,
                   callers, calls, tasks>>

(* Lines 521-544: at the end of the list or when stopped the loop is left   *)
(* for the summary of line 499 and the finally; otherwise the symbols of    *)
(* the next batch are submitted to a new pool.                              *)
BatchStart(r) ==
    /\ runs[r].pc = "batch_loop"
    /\ LET valid_symbols == runs[r].valid_symbols
           batch_index == runs[r].batch_index
       IN  IF batch_index >= Len(valid_symbols) \/ ~is_running
           THEN /\ runs' = [runs EXCEPT ![r].pc = "finally"]
                /\ UNCHANGED tasks
           ELSE LET batch_symbols ==
                        SubSeq(valid_symbols, batch_index + 1,
                               Min(batch_index
                                     + BatchSize(runs[r].max_workers),
                                   Len(valid_symbols)))
                IN  /\ runs' = [runs EXCEPT ![r].pc = "as_completed",
                                            ![r].batch_symbols = batch_symbols,
                                            ![r].broke = FALSE]
                    /\ tasks' = [x \in DOMAIN tasks |->
                                    IF x[1] = r /\ x[2] \in 1..Len(batch_symbols)
                                    THEN [NoTask EXCEPT !.state = "queued"]
                                    ELSE tasks[x]]
    /\ UNCHANGED <<vars, tp_sl_params, helpers, tier, is_running, in_flight,
                   results_lock, coin_settings, callers, calls>>

(* A pool with a worker for every symbol of the batch. *)
TaskStart_WorkerPerSymbol(r, i, df_empty) ==
    /\ tier = "per_coin"
    /\ FirstQueuedTask(r, i)
    /\ current_symbol' = runs[r].batch_symbols[i]
    /\ current_symbol_index' = Len(completed_symbols) + Len(failed_symbols)
    /\ current_symbol_progress' = 0
    /\ tasks' = [tasks EXCEPT
                    ![r, i] = IF df_empty
                              THEN [NoTask EXCEPT !.state = "done"]
                              ELSE [NoTask EXCEPT
                                       !.state = "running",
                                       !.combos =
                                           [k \in Combinations |->
                                               IF k \in runs[r].combinations
                                               THEN "queued" ELSE "none"]]]
    /\ UNCHANGED <<vars, tp_sl_params, helpers, tier, is_running, symbols_queue,
                   completed_symbols, failed_symbols, best_results,
                   total_symbols, total_combinations, optimization_thread,
                   results_lock, coin_settings, callers, calls, runs>>

(* Lines 588-601 and 619-633: a worker of the batch pool (line 531: at most *)
(* min(len(batch_symbols), max_workers) of them) takes the next symbol; it  *)
(* returns at once for an empty frame, otherwise it submits every           *)
(* combination to a pool of its own.                                        *)
TaskStart(r, i, df_empty) ==
    /\ tier = "per_coin"
    /\ FirstQueuedTask(r, i)
    /\ Cardinality(RunningTasks(r))
          < Min(Len(runs[r].batch_symbols), runs[r].max_workers)
    /\ current_symbol' = runs[r].batch_symbols[i]
    /\ current_symbol_index' = Len(completed_symbols) + Len(failed_symbols)
    /\ current_symbol_progress' = 0
    /\ tasks' = [tasks EXCEPT
                    ![r, i] = IF df_empty
                              THEN [NoTask EXCEPT !.state = "done"]
                              ELSE [NoTask EXCEPT
                                       !.state = "running",
                                       !.combos =
                                           [k \in Combinations |->
                                               IF k \in runs[r].combinations
                                               THEN "queued" ELSE "none"]]]
    /\ UNCHANGED <<vars, tp_sl_params, helpers, tier, is_running, symbols_queue,
                   completed_symbols, failed_symbols, best_results,
                   total_symbols, total_combinations, optimization_thread,
                   results_lock, coin_settings, callers, calls, runs>>

(* The number of workers of the pool of the combinations: line 540 of the   *)
(* per-coin optimizer, line 345 of the optimizer service.                   *)
ComboWorkers(r) ==
    IF tier = "per_coin" THEN Min(4, runs[r].max_workers) ELSE max_workers

(* backtest_runner.py line 10, optimizer_service.py run_single_backtest: a  *)
(* worker of the pool takes the next combination.                           *)
ComboStart(r, i, k) ==
    /\ FirstQueuedCombo(r, i, k)
    /\ Cardinality(RunningCombos(r, i)) < ComboWorkers(r)
    /\ tasks' = [tasks EXCEPT ![r, i].combos[k] = "running"]
    /\ UNCHANGED <<vars, tp_sl_params, helpers, tier, is_running, in_flight,
                   results_lock, coin_settings, callers, calls, runs>>

(* backtest_runner.py lines 60 and 62-64: the backtest returns its result,  *)
(* or None after an exception.                                              *)
ComboFinish(r, i, k, result) ==
    /\ tasks[r, i].combos[k] = "running"
    /\ tasks' = [tasks EXCEPT ![r, i].combos[k] = "done",
                              ![r, i].returned[k] = result]
    /\ UNCHANGED <<vars, tp_sl_params, helpers, tier, is_running, in_flight,
                   results_lock, coin_settings, callers, calls, runs>>

(* A loop that a backtest without result ends. *)
InnerHandle_NoneIsFatal(r, i, k) ==
    /\ tier = "per_coin"
    /\ tasks[r, i].state = "running"
    /\ ~tasks[r, i].broke
    /\ k \in runs[r].combinations
    /\ k \notin tasks[r, i].seen
    /\ tasks[r, i].combos[k] = "done"
    /\ IF ~is_running \/ ~tasks[r, i].returned[k].ok
       THEN /\ tasks' = [tasks EXCEPT ![r, i].broke = TRUE]
            /\ UNCHANGED current_symbol_progress
       ELSE /\ tasks' = [tasks EXCEPT
                            ![r, i].seen = @ \cup {k},
                            ![r, i].results =
                                Append(@, tasks[r, i].returned[k])]
            /\ current_symbol_progress' = Cardinality(tasks[r, i].seen) + 1
    /\ UNCHANGED <<vars, tp_sl_params, helpers, tier, is_running, symbols_queue,
                   completed_symbols, failed_symbols, best_results,
                   total_symbols, current_symbol, current_symbol_index,
                   total_combinations, optimization_thread,
                   results_lock, coin_settings, callers, calls, runs>>

(* Lines 636-656: as_completed hands a finished backtest to the loop.       *)
InnerHandle(r, i, k) ==
    /\ tier = "per_coin"
    /\ tasks[r, i].state = "running"
    /\ ~tasks[r, i].broke
    /\ k \in runs[r].combinations
    /\ k \notin tasks[r, i].seen
    /\ tasks[r, i].combos[k] = "done"
    /\ IF ~is_running
       THEN /\ tasks' = [tasks EXCEPT ![r, i].broke = TRUE]
            /\ UNCHANGED current_symbol_progress
       ELSE /\ tasks' = [tasks EXCEPT
                            ![r, i].seen = @ \cup {k},
                            ![r, i].results =
                                IF tasks[r, i].returned[k].ok
                                THEN Append(@, tasks[r, i].returned[k])
                                ELSE @]
            /\ current_symbol_progress' = Cardinality(tasks[r, i].seen) + 1
    /\ UNCHANGED <<vars, tp_sl_params, helpers, tier, is_running, symbols_queue,
                   completed_symbols, failed_symbols, best_results,
                   total_symbols, current_symbol, current_symbol_index,
                   total_combinations, optimization_thread,
                   results_lock, coin_settings, callers, calls, runs>>

(* The position that the sort of line 659 gives to results[j]: behind the   *)
(* results of a higher score and, the sort being stable, behind the        *)
(* earlier ones of the same score.                                         *)
RankOf(results, j) ==
    Cardinality({ i \in 1..Len(results) :
                    \/ results[i].score > results[j].score
                    \/ /\ results[i].score = results[j].score
                       /\ i < j }) + 1

(* Line 659: results.sort(key=lambda x: x['score'], reverse=True) *)
SortByScore(results) ==
    [p \in 1..Len(results) |->
        results[CHOOSE j \in 1..Len(results) : RankOf(results, j) = p]]

(* A return of the first result that was collected, without the sort. *)
TaskReturn_Unsorted(r, i) ==
    /\ tier = "per_coin"
    /\ tasks[r, i].state = "running"
    /\ tasks[r, i].broke \/ tasks[r, i].seen = runs[r].combinations
    /\ \A k \in runs[r].combinations : tasks[r, i].combos[k] = "done"
    /\ tasks' = [tasks EXCEPT
                    ![r, i] =
                        IF tasks[r, i].results = <<>>
                        THEN [NoTask EXCEPT !.state = "done"]
                        ELSE [NoTask EXCEPT
                                 !.state = "done",
                                 !.success = TRUE,
                                 !.results = tasks[r, i].results,
                                 !.best = tasks[r, i].results[1]]]
    /\ UNCHANGED <<vars, tp_sl_params, helpers, tier, is_running, in_flight,
                   results_lock, coin_settings, callers, calls, runs>>

(* Lines 657-668 and 608-617: the loop is over, the pool has run every      *)
(* combination that was submitted, the results are sorted and the first of  *)
(* them is returned as the symbol's result.                                 *)
TaskReturn(r, i) ==
    /\ tier = "per_coin"
    /\ tasks[r, i].state = "running"
    /\ tasks[r, i].broke \/ tasks[r, i].seen = runs[r].combinations
    /\ \A k \in runs[r].combinations : tasks[r, i].combos[k] = "done"
    /\ tasks' = [tasks EXCEPT
                    ![r, i] =
                        IF tasks[r, i].results = <<>>
                        THEN [NoTask EXCEPT !.state = "done"]
                        ELSE [NoTask EXCEPT
                                 !.state = "done",
                                 !.success = TRUE,
                                 !.results = SortByScore(tasks[r, i].results),
                                 !.best = SortByScore(tasks[r, i].results)[1]]]
    /\ UNCHANGED <<vars, tp_sl_params, helpers, tier, is_running, in_flight,
                   results_lock, coin_settings, callers, calls, runs>>

(* A loop that stores the result in best_results only when it was saved. *)
HandleCompletion_StoredWhenSaved(r, i, save_success) ==
    /\ runs[r].pc = "as_completed"
    /\ ~runs[r].broke
    /\ tasks[r, i].state = "done"
    /\ ~tasks[r, i].handled
    /\ IF ~is_running
       THEN /\ runs' = [runs EXCEPT ![r].broke = TRUE]
            /\ UNCHANGED <<tasks, best_results, coin_settings,
                           completed_symbols, failed_symbols>>
       ELSE /\ tasks' = [tasks EXCEPT ![r, i].handled = TRUE]
            /\ UNCHANGED runs
            /\ \E symbol \in {runs[r].batch_symbols[i]} :
               IF tasks[r, i].success /\ save_success
               THEN /\ best_results' =
                          [x \in DOMAIN best_results \cup {symbol} |->
                              IF x = symbol THEN tasks[r, i].best
                              ELSE best_results[x]]
                    /\ coin_settings' =
                          [x \in DOMAIN coin_settings \cup {symbol} |->
                              IF x = symbol
                              THEN Setting(tasks[r, i].best.score)
                              ELSE coin_settings[x]]
                    /\ completed_symbols' = Append(completed_symbols, symbol)
                    /\ UNCHANGED failed_symbols
               ELSE /\ failed_symbols' = Append(failed_symbols, symbol)
                    /\ UNCHANGED <<best_results, coin_settings,
                                   completed_symbols>>
    /\ UNCHANGED <<vars, tp_sl_params, helpers, tier, is_running, symbols_queue,
                   total_symbols, current_symbol, current_symbol_index,
                   current_symbol_progress, total_combinations,
                   optimization_thread, results_lock, callers, calls>>

(* Lines 547-574: as_completed hands a finished symbol to the loop; the     *)
(* result is stored in best_results and in the coin settings (the settings  *)
(* in memory are updated before the file is written, so also when the save  *)
(* fails), the symbol is appended to completed_symbols or failed_symbols.   *)
HandleCompletion(r, i, save_success) ==
    /\ runs[r].pc = "as_completed"
    /\ ~runs[r].broke
    /\ tasks[r, i].state = "done"
    /\ ~tasks[r, i].handled
    /\ IF ~is_running
       THEN /\ runs' = [runs EXCEPT ![r].broke = TRUE]
            /\ UNCHANGED <<tasks, best_results, coin_settings,
                           completed_symbols, failed_symbols>>
       ELSE /\ tasks' = [tasks EXCEPT ![r, i].handled = TRUE]
            /\ UNCHANGED runs
            /\ \E symbol \in {runs[r].batch_symbols[i]} :
               IF tasks[r, i].success
               THEN /\ best_results' =
                          [x \in DOMAIN best_results \cup {symbol} |->
                              IF x = symbol THEN tasks[r, i].best
                              ELSE best_results[x]]
                    /\ coin_settings' =
                          [x \in DOMAIN coin_settings \cup {symbol} |->
                              IF x = symbol
                              THEN Setting(tasks[r, i].best.score)
                              ELSE coin_settings[x]]
                    /\ IF save_success
                       THEN /\ completed_symbols' =
                                  Append(completed_symbols, symbol)
                            /\ UNCHANGED failed_symbols
                       ELSE /\ failed_symbols' = Append(failed_symbols, symbol)
                            /\ UNCHANGED completed_symbols
               ELSE /\ failed_symbols' = Append(failed_symbols, symbol)
                    /\ UNCHANGED <<best_results, coin_settings,
                                   completed_symbols>>
    /\ UNCHANGED <<vars, tp_sl_params, helpers, tier, is_running, symbols_queue,
                   total_symbols, current_symbol, current_symbol_index,
                   current_symbol_progress, total_combinations,
                   optimization_thread, results_lock, callers, calls>>

(* Lines 575-583: the loop over the finished symbols is over and the pool   *)
(* has run every symbol that was submitted; the pool and its futures are    *)
(* dropped and the next batch follows.                                      *)
BatchEnd(r) ==
    /\ runs[r].pc = "as_completed"
    /\ \/ runs[r].broke
       \/ \A i \in 1..Len(runs[r].batch_symbols) : tasks[r, i].handled
    /\ \A i \in 1..Len(runs[r].batch_symbols) : tasks[r, i].state = "done"
    /\ runs' = [runs EXCEPT ![r].pc = "batch_loop",
                            ![r].batch_index =
                                @ + BatchSize(runs[r].max_workers),
                            ![r].batch_symbols = <<>>,
                            ![r].broke = FALSE]
    /\ tasks' = [x \in DOMAIN tasks |->
                    IF x[1] = r THEN NoTask ELSE tasks[x]]
    /\ UNCHANGED <<vars, tp_sl_params, helpers, tier, is_running, in_flight,
                   results_lock, coin_settings, callers, calls>>

(* The end of the thread that leaves is_running as it is. *)
RunFinally_FlagKept(r) ==
    /\ runs[r].pc = "finally"
    /\ current_symbol' = ""
    /\ runs' = [runs EXCEPT ![r] = [NoRun EXCEPT !.pc = "done"]]
    /\ UNCHANGED <<vars, tp_sl_params, helpers, tier, is_running, symbols_queue,
                   completed_symbols, failed_symbols, best_results,
                   total_symbols, current_symbol_index,
                   current_symbol_progress, total_combinations,
                   optimization_thread, results_lock, coin_settings,
                   callers, calls, tasks>>

(* Lines 498-509: the summary file is written when the batches were run,    *)
(* and the finally clause resets is_running and current_symbol.             *)
RunFinally(r) ==
    /\ runs[r].pc = "finally"
    /\ is_running' = FALSE
    /\ current_symbol' = ""
    /\ runs' = [runs EXCEPT ![r] = [NoRun EXCEPT !.pc = "done"]]
    /\ UNCHANGED <<vars, tp_sl_params, helpers, tier, symbols_queue,
                   completed_symbols, failed_symbols, best_results,
                   total_symbols, current_symbol_index,
                   current_symbol_progress, total_combinations,
                   optimization_thread, results_lock, coin_settings,
                   callers, calls, tasks>>

(***************************************************************************)
(* The optimizer service (tier "single"): one symbol, one pool.  Its       *)
(* current_progress is held in current_symbol_progress, its best_results   *)
(* is the list of line 385.                                                *)
(***************************************************************************)
(* The pool of line 345: the only one of a run of the service. *)
SvcPool == 1

(* Line 385: self.best_results = results[:100] *)
BestResultsCap == 100

(* optimizer_service.py lines 289-292 *)
SvcStartCheck(c, combinations) ==
    /\ tier = "single"
    /\ calls < MaxCalls
    /\ Free(c)
    /\ calls' = calls + 1
    /\ IF is_running
       THEN Return(c, "start", FALSE, "Optimization is already running")
       ELSE callers' = [callers EXCEPT ![c].pc = "checked",
                                       ![c].op = "start",
                                       ![c].combinations = combinations,
                                       ![c].ret = Returned(FALSE, "")]
    /\ UNCHANGED <<vars, tp_sl_params, helpers, tier, is_running, in_flight,
                   results_lock, coin_settings, runs, tasks>>

(* optimizer_service.py lines 294-307 when ok, lines 309-311 when the       *)
(* thread cannot be started.                                                *)
SvcStartInit(c, ok) ==
    /\ tier = "single"
    /\ callers[c].pc = "checked"
    /\ current_symbol_progress' = 0
    /\ best_results' = << >>
    /\ IF ok
       THEN /\ is_running' = TRUE
            /\ optimization_thread' = NewThread
            /\ runs' = [runs EXCEPT
                           ![NewThread] =
                               [NoRun EXCEPT
                                   !.pc = "svc_fetch",
                                   !.combinations = callers[c].combinations]]
            /\ Return(c, "start", TRUE, "Optimization started successfully")
       ELSE /\ is_running' = FALSE
            /\ Return(c, "start", FALSE, "Error starting optimization")
            /\ UNCHANGED <<optimization_thread, runs>>
    /\ UNCHANGED <<vars, tp_sl_params, helpers, tier, symbols_queue, completed_symbols,
                   failed_symbols, total_symbols, current_symbol,
                   current_symbol_index, total_combinations,
                   results_lock, coin_settings, calls, tasks>>

(* optimizer_service.py lines 313-350: with data every combination is       *)
(* submitted to the pool; without, line 332 raises.                         *)
SvcFetch(r, has_data) ==
    /\ runs[r].pc = "svc_fetch"
    /\ IF has_data
       THEN /\ total_combinations' = Cardinality(runs[r].combinations)
            /\ runs' = [runs EXCEPT ![r].pc = "svc_loop"]
            /\ tasks' = [tasks EXCEPT
                            ![r, SvcPool] =
                                [NoTask EXCEPT
                                    !.state = "running",
                                    !.combos =
                                        [k \in Combinations |->
                                            IF k \in runs[r].combinations
                                            THEN "queued" ELSE "none"]]]
       ELSE /\ runs' = [runs EXCEPT ![r].pc = "svc_finally"]
            /\ UNCHANGED <<total_combinations, tasks>>
    /\ UNCHANGED <<vars, tp_sl_params, helpers, tier, is_running, symbols_queue,
                   completed_symbols, failed_symbols, best_results,
                   total_symbols, current_symbol, current_symbol_index,
                   current_symbol_progress, optimization_thread,
                   results_lock, coin_settings, callers, calls>>

(* optimizer_service.py lines 353-378 *)
SvcHandle(r, k) ==
    /\ runs[r].pc = "svc_loop"
    /\ ~tasks[r, SvcPool].broke
    /\ k \in runs[r].combinations
    /\ k \notin tasks[r, SvcPool].seen
    /\ tasks[r, SvcPool].combos[k] = "done"
    /\ IF ~is_running
       THEN /\ tasks' = [tasks EXCEPT ![r, SvcPool].broke = TRUE]
            /\ UNCHANGED current_symbol_progress
       ELSE /\ tasks' = [tasks EXCEPT
                            ![r, SvcPool].seen = @ \cup {k},
                            ![r, SvcPool].results =
                                IF tasks[r, SvcPool].returned[k].ok
                                THEN Append(@, tasks[r, SvcPool].returned[k])
                                ELSE @]
            /\ current_symbol_progress' =
                  Cardinality(tasks[r, SvcPool].seen) + 1
    /\ UNCHANGED <<vars, tp_sl_params, helpers, tier, is_running, symbols_queue,
                   completed_symbols, failed_symbols, best_results,
                   total_symbols, current_symbol, current_symbol_index,
                   total_combinations, optimization_thread,
                   results_lock, coin_settings, callers, calls, runs>>

(* optimizer_service.py lines 379-384: the loop is over, the pool has run   *)
(* every combination, the results are sorted and the thread takes the lock. *)
SvcStoreEnter(r) ==
    /\ runs[r].pc = "svc_loop"
    /\ \/ tasks[r, SvcPool].broke
       \/ tasks[r, SvcPool].seen = runs[r].combinations
    /\ \A k \in runs[r].combinations :
          tasks[r, SvcPool].combos[k] = "done"
    /\ results_lock = Unlocked
    /\ results_lock' = ThreadNames[r]
    /\ runs' = [runs EXCEPT ![r].pc = "svc_store"]
    /\ tasks' = [tasks EXCEPT
                    ![r, SvcPool] =
                        [NoTask EXCEPT
                            !.state = "done",
                            !.results =
                                SortByScore(tasks[r, SvcPool].results)]]
    /\ UNCHANGED <<vars, tp_sl_params, helpers, tier, is_running, in_flight,
                   coin_settings, callers, calls>>

(* A store of every result. *)
SvcStoreExit_Uncapped(r) ==
    /\ runs[r].pc = "svc_store"
    /\ best_results' = tasks[r, SvcPool].results
    /\ results_lock' = Unlocked
    /\ runs' = [runs EXCEPT ![r].pc = "svc_finally"]
    /\ UNCHANGED <<vars, tp_sl_params, helpers, tier, is_running, symbols_queue,
                   completed_symbols, failed_symbols, total_symbols,
                   current_symbol, current_symbol_index,
                   current_symbol_progress, total_combinations,
                   optimization_thread, coin_settings, callers, calls,
                   tasks>>

(* optimizer_service.py lines 385-391: the results are stored, the lock is  *)
(* released, the file is written.                                           *)
SvcStoreExit(r) ==
    /\ runs[r].pc = "svc_store"
    /\ best_results' =
          SubSeq(tasks[r, SvcPool].results, 1,
                 Min(BestResultsCap, Len(tasks[r, SvcPool].results)))
    /\ results_lock' = Unlocked
    /\ runs' = [runs EXCEPT ![r].pc = "svc_finally"]
    /\ UNCHANGED <<vars, tp_sl_params, helpers, tier, is_running, symbols_queue,
                   completed_symbols, failed_symbols, total_symbols,
                   current_symbol, current_symbol_index,
                   current_symbol_progress, total_combinations,
                   optimization_thread, coin_settings, callers, calls,
                   tasks>>

(* optimizer_service.py lines 393-397 *)
SvcFinally(r) ==
    /\ runs[r].pc = "svc_finally"
    /\ is_running' = FALSE
    /\ current_symbol_progress' = total_combinations
    /\ runs' = [runs EXCEPT ![r] = [NoRun EXCEPT !.pc = "done"]]
    /\ tasks' = [x \in DOMAIN tasks |->
                    IF x[1] = r THEN NoTask ELSE tasks[x]]
    /\ UNCHANGED <<vars, tp_sl_params, helpers, tier, symbols_queue,
                   completed_symbols, failed_symbols, best_results,
                   total_symbols, current_symbol, current_symbol_index,
                   total_combinations, optimization_thread,
                   results_lock, coin_settings, callers, calls>>

(***************************************************************************)
(* The optimizer under concurrent API calls                                *)
(***************************************************************************)
(* No run_backtest call is modelled step by step: the backtests are the     *)
(* work items of the pools. *)
BacktestAbstracted ==
    /\ tp_base_percent = 1
    /\ sl_percent = 2
    /\ max_tps = 3
    /\ tp_close_percent = 50
    /\ initial_balance = 10000
    /\ leverage = 1
    /\ margin_ratio = 100
    /\ balance = 10000
    /\ peak_balance = 10000
    /\ pc = "abstract"
    /\ timestamp = 0
    /\ current_price = 0
    /\ signal = 0
    /\ should_close = FALSE
    /\ close_reason = ""
    /\ close_percent = 0
    /\ position = FlatPosition
    /\ total_trades = 0
    /\ winning_trades = 0
    /\ total_pnl = 0
    /\ max_drawdown = Zero
    /\ trades = <<>>
    /\ equity_curve = <<>>
    /\ tp_sl_levels = <<>>
    /\ statistics = [initial_balance |-> 0]
    /\ OwnParams

(* The requests whose runs are followed under concurrent calls: one symbol, *)
(* one combination.                                                         *)
SmallList == <<"A">>

SmallGrid == {1}

SchedInit ==
    /\ BacktestAbstracted
    /\ NoHelperCall
    /\ \E t \in {"per_coin", "single"} : Constructed(t, << >>)

(* Start, forced start and stop calls of concurrent callers. *)
StartStopCall ==
    \E c \in Callers :
        \/ \E force \in BOOLEAN : StartCheck(c, SmallList, SmallGrid, force, TRUE)
        \/ StartInit(c)
        \/ \E ok \in BOOLEAN : StartThread(c, ok)
        \/ SvcStartCheck(c, SmallGrid)
        \/ \E ok \in BOOLEAN : SvcStartInit(c, ok)
        \/ Stop(c)

PerCoinThread ==
    \E r \in RunIds :
        \/ \E available \in FetchOutcomes :
              RunFetch(r, available, max_workers)
        \/ BatchStart(r)
        \/ \E i \in Futures, save_success \in BOOLEAN :
              HandleCompletion(r, i, save_success)
        \/ BatchEnd(r)
        \/ RunFinally(r)

ServiceThread ==
    \E r \in RunIds :
        \/ \E has_data \in BOOLEAN : SvcFetch(r, has_data)
        \/ \E k \in Combinations : SvcHandle(r, k)
        \/ SvcStoreEnter(r)
        \/ SvcStoreExit(r)
        \/ SvcFinally(r)

PerCoinWorker ==
    \E r \in RunIds, i \in Futures :
        \/ \E df_empty \in BOOLEAN : TaskStart(r, i, df_empty)
        \/ \E k \in Combinations : InnerHandle(r, i, k)
        \/ TaskReturn(r, i)

BacktestWorker ==
    \E r \in RunIds, i \in Futures, k \in Combinations :
        \/ ComboStart(r, i, k)
        \/ \E result \in Finished(k) : ComboFinish(r, i, k, result)

SchedNext ==
    StartStopCall \/ PerCoinThread \/ ServiceThread \/ PerCoinWorker
        \/ BacktestWorker

SchedSpec == SchedInit /\ [][SchedNext]_allvars

(* The steps that need no new request: a call that was entered goes on,    *)
(* the optimization threads and the pool workers run, and every backtest   *)
(* that was submitted terminates.  Some thread that can take a step is     *)
(* eventually scheduled; no request ever has to arrive.                    *)
CallContinues ==
    \E c \in Callers :
        \/ StartInit(c)
        \/ \E ok \in BOOLEAN : StartThread(c, ok)
        \/ \E ok \in BOOLEAN : SvcStartInit(c, ok)

Progress ==
    CallContinues \/ PerCoinThread \/ ServiceThread \/ PerCoinWorker
        \/ BacktestWorker

LiveSpec == SchedInit /\ [][SchedNext]_allvars /\ WF_allvars(Progress)

(***************************************************************************)
(* One run of the per-coin optimizer over two batches, with stop and       *)
(* status calls and no second start                                        *)
(***************************************************************************)
FullGrid == Combinations

RunInit ==
    BacktestAbstracted /\ NoHelperCall /\ Constructed("per_coin", << >>)

(* A start call when no optimization thread was created and no other start *)
(* call is under way. *)
FirstStart ==
    \E c \in Callers, force \in BOOLEAN :
        /\ optimization_thread = NoThread
        /\ \A d \in Callers : callers[d].pc \in {"idle", "status"}
        /\ StartCheck(c, LongList, FullGrid, force, TRUE)

CallsOfOneRun ==
    \/ FirstStart
    \/ \E c \in Callers :
          \/ StartInit(c)
          \/ \E ok \in BOOLEAN : StartThread(c, ok)
          \/ Stop(c)
          \/ GetStatusEnter(c)
          \/ GetStatusExit(c)

RunNext == CallsOfOneRun \/ PerCoinThread \/ PerCoinWorker \/ BacktestWorker

RunSpec == RunInit /\ [][RunNext]_allvars

(***************************************************************************)
(* Start calls over stored settings and symbol lists; the fetch of every   *)
(* run comes back without data                                             *)
(***************************************************************************)
FilterInit ==
    /\ BacktestAbstracted
    /\ NoHelperCall
    /\ \E stored \in StoredSettings : Constructed("per_coin", stored)

FilterNext ==
    \/ \E c \in Callers :
          \/ \E symbols \in SymbolLists, force, dates_ok \in BOOLEAN :
                StartCheck(c, symbols, SmallGrid, force, dates_ok)
          \/ StartInit(c)
          \/ \E ok \in BOOLEAN : StartThread(c, ok)
    \/ \E r \in RunIds :
          \/ RunFetch(r, {}, max_workers)
          \/ RunFinally(r)

FilterSpec == FilterInit /\ [][FilterNext]_allvars

(***************************************************************************)
(* A run_backtest call of a pool worker on the FuturesBacktestService that *)
(* the BacktestRunner shares among the workers of the pool                 *)
(***************************************************************************)
(* base_optimizer.py line 22 and per_coin_optimizer.py lines 628-633: the   *)
(* workers call run_single_backtest on one BacktestRunner, hence            *)
(* run_backtest on one FuturesBacktestService.  Another worker executes     *)
(* lines 27-31 of its own call with the tp_base and stop_loss of its        *)
(* combination; max_tps and tp_close come from the trading parameters and   *)
(* are the same in every call of the run.                                   *)
OtherRunBacktest(tp_base, stop_loss) ==
    /\ pc = "loop"
    /\ tp_base_percent' = tp_base
    /\ sl_percent' = stop_loss
    /\ max_tps' = tp_sl_params.max_tps
    /\ tp_close_percent' = tp_sl_params.tp_close
    /\ UNCHANGED <<initial_balance, leverage, margin_ratio, pc, timestamp,
                   current_price, signal, should_close, close_reason,
                   close_percent, balance, position, total_trades,
                   winning_trades, total_pnl, max_drawdown, peak_balance,
                   trades, equity_curve, tp_sl_levels, statistics,
                   tp_sl_params, sched, helpers>>

SharedNext ==
    \/ \E tp_base, stop_loss \in LadderPercents :
          OtherRunBacktest(tp_base, stop_loss)
    \/ FirstEntry
    \/ ReturnResults

(* Only the service that the workers share is followed; the state of the   *)
(* optimizer that owns the pool plays no part in run_backtest.             *)
SharedSpec == LadderInit /\ [][SharedNext]_allvars

(***************************************************************************)
(* One run of the per-coin optimizer that nobody stops: the request list   *)
(* may name a symbol twice, the fetch may fail for some symbols, and the   *)
(* backtests return results of different scores                            *)
(***************************************************************************)
(* app.py lines 666 and 693-697: a request list of fewer than 10 symbols is merged  *)
(* with the popular symbols through a set; a longer list is passed on as    *)
(* it was posted.  Lists of three symbols stand for the long ones.          *)
RequestLists == { LongList, <<"A", "B", "A">> }

(* result['score'] of the backtests of the run that is ranked. *)
RankedScores == {3, 7}

CompleteStart ==
    \E c \in Callers, symbols \in RequestLists :
        /\ optimization_thread = NoThread
        /\ \A d \in Callers : callers[d].pc = "idle"
        /\ StartCheck(c, symbols, FullGrid, FALSE, TRUE)

RankedWorker ==
    \E r \in RunIds, i \in Futures, k \in Combinations :
        \/ ComboStart(r, i, k)
        \/ ComboFinish(r, i, k, NoResult)
        \/ \E score \in RankedScores :
              ComboFinish(r, i, k, BacktestResult(k, score))

CompleteNext ==
    \/ CompleteStart
    \/ \E c \in Callers :
          \/ StartInit(c)
          \/ \E ok \in BOOLEAN : StartThread(c, ok)
    \/ PerCoinThread
    \/ PerCoinWorker
    \/ RankedWorker

CompleteSpec == RunInit /\ [][CompleteNext]_allvars

(***************************************************************************)
(* One run of the per-coin optimizer over five symbols with max_workers 1  *)
(* or 2: batches of two symbols and batches of four, with stop calls       *)
(***************************************************************************)
BatchList == <<"A", "B", "C", "D", "E">>

(* optimization_params['max_workers'] of the request. *)
RequestedWorkers == {1, MaxWorkers}

BatchRunStart ==
    \E c \in Callers :
        /\ optimization_thread = NoThread
        /\ \A d \in Callers : callers[d].pc = "idle"
        /\ StartCheck(c, BatchList, FullGrid, TRUE, TRUE)

BatchThread ==
    \E r \in RunIds :
        \/ \E workers \in RequestedWorkers : RunFetch(r, Symbols, workers)
        \/ BatchStart(r)
        \/ \E i \in Futures : HandleCompletion(r, i, TRUE)
        \/ BatchEnd(r)
        \/ RunFinally(r)

BatchPoolWorker ==
    \E r \in RunIds, i \in Futures :
        \/ TaskStart(r, i, FALSE)
        \/ \E k \in Combinations : InnerHandle(r, i, k)
        \/ TaskReturn(r, i)

BatchBacktestWorker ==
    \E r \in RunIds, i \in Futures, k \in Combinations :
        \/ ComboStart(r, i, k)
        \/ \E score \in ResultScores :
              ComboFinish(r, i, k, BacktestResult(k, score))

BatchNext ==
    \/ BatchRunStart
    \/ \E c \in Callers :
          \/ StartInit(c)
          \/ StartThread(c, TRUE)
          \/ is_running /\ Stop(c)
    \/ BatchThread
    \/ BatchPoolWorker
    \/ BatchBacktestWorker

BatchSpec == RunInit /\ [][BatchNext]_allvars

(***************************************************************************)
(* The end of a run of the optimizer service over a grid of up to          *)
(* MaxResults combinations: the loop of lines 353-378 has collected the    *)
(* results, which are sorted and stored                                    *)
(***************************************************************************)
MaxResults == 102

(* The scores of the collected results, in the order of their collection:  *)
(* equal, ascending, descending and mixed with ties.                       *)
ScorePatterns ==
    { [a |-> 1, b |-> 0, m |-> 1], [a |-> 1, b |-> 0, m |-> 150],
      [a |-> 149, b |-> 0, m |-> 150], [a |-> 7, b |-> 3, m |-> 11] }

Collected(n, p) ==
    [j \in 1..n |-> BacktestResult(j, (p.a * j + p.b) % p.m)]

(* The state of the service at line 379: the pool has run every            *)
(* combination and the loop has handled every future.  The futures of the  *)
(* pool are followed for the combinations of Combinations only.            *)
RankInit ==
    /\ BacktestAbstracted
    /\ NoHelperCall
    /\ \E n \in 0..MaxResults, p \in ScorePatterns :
          /\ total_combinations = Max(n, Cardinality(Combinations))
          /\ current_symbol_progress = Max(n, Cardinality(Combinations))
          /\ tasks = [x \in RunIds \X Futures |->
                         IF x = <<1, SvcPool>>
                         THEN [NoTask EXCEPT
                                  !.state = "running",
                                  !.combos = [k \in Combinations |-> "done"],
                                  !.returned =
                                      [k \in Combinations |->
                                          IF k <= n THEN Collected(n, p)[k]
                                          ELSE NoResult],
                                  !.seen = Combinations,
                                  !.results = Collected(n, p)]
                         ELSE NoTask]
    /\ tier = "single"
    /\ is_running = TRUE
    /\ symbols_queue = <<>>
    /\ completed_symbols = <<>>
    /\ failed_symbols = <<>>
    /\ best_results = << >>
    /\ total_symbols = 0
    /\ current_symbol = ""
    /\ current_symbol_index = 0
    /\ optimization_thread = 1
    /\ results_lock = Unlocked
    /\ coin_settings = << >>
    /\ callers = [c \in Callers |->
                     IF c = "c1"
                     THEN [IdleCaller EXCEPT
                              !.op = "start",
                              !.combinations = Combinations,
                              !.ret = Returned(TRUE,
                                         "Optimization started successfully")]
                     ELSE IdleCaller]
    /\ calls = 1
    /\ runs = [r \in RunIds |->
                  IF r = 1 THEN [NoRun EXCEPT !.pc = "svc_loop",
                                              !.combinations = Combinations]
                  ELSE NoRun]

RankNext ==
    \E r \in RunIds : SvcStoreEnter(r) \/ SvcStoreExit(r) \/ SvcFinally(r)

RankSpec == RankInit /\ [][RankNext]_allvars

(***************************************************************************)
(* A call of _calculate_optimization_score (backtest_runner.py lines       *)
(* 113-138, the same code in optimizer_service.py lines 262-287)           *)
(***************************************************************************)
(* stats: total_return, win_rate and max_drawdown in hundredths of a       *)
(* percent, total_trades a count.  A dictionary without one of the keys    *)
(* makes line 119 raise.                                                   *)
StatKeys == {"total_return", "win_rate", "max_drawdown", "total_trades"}

TotalReturns == {-10000, -2550, 0, 1234, 33333, 50000, 60000}

WinRates == {0, 3333, 5000, 10000}

MaxDrawdowns == {0, 1250, 5000, 10000}

TradeCounts == {0, 1, 50, 100, 250}

StatsInputs ==
    [total_return : TotalReturns, win_rate : WinRates,
     max_drawdown : MaxDrawdowns, total_trades : TradeCounts]
        \cup [total_return : {0, 1234}, win_rate : WinRates,
              total_trades : TradeCounts]

(* round(): the integer nearest to n / d, a tie to the even one. *)
RoundHalfEven(n, d) ==
    LET q == n \div d
        r == n % d
    IN  IF 2 * r < d THEN q
        ELSE IF 2 * r > d THEN q + 1
        ELSE IF q % 2 = 0 THEN q ELSE q + 1

(* round(x, 2) of x = n / 10000, in hundredths. *)
RoundToCents(n) == RoundHalfEven(n, 100)

(* Lines 115-138, the score in hundredths.  In units of 1/10000:           *)
(* return_score * 0.4 * 10 is 4 * min(total_return, 500 %),                *)
(* win_rate_score * 0.3 * 10 is 3 * win_rate,                              *)
(* drawdown_penalty * 0.2 * 10 is 4 * max(0, 50 % - max_drawdown),         *)
(* trade_count_bonus * 0.1 * 10 is 100 * min(total_trades, 100).           *)
CalculateOptimizationScore(stats) ==
    IF StatKeys \subseteq DOMAIN stats
    THEN RoundToCents(4 * Min(stats.total_return, 50000)
                      + 3 * stats.win_rate
                      + 4 * Max(0, 5000 - stats.max_drawdown)
                      + 100 * Min(stats.total_trades, 100))
    ELSE 0

ScoreInit ==
    /\ BacktestAbstracted
    /\ NoOptimizer
    /\ NoCacheCall
    /\ generation = NoGeneration
    /\ bulk_fetch = NoBulkFetch
    /\ \E stats \in StatsInputs :
          scoring = [pc |-> "called", stats |-> stats, score |-> 0]

(* The call returns: the score of line 136, or the 0 of line 138. *)
ScoreReturn ==
    /\ scoring.pc = "called"
    /\ scoring' = [scoring EXCEPT
                      !.pc = "returned",
                      !.score = CalculateOptimizationScore(scoring.stats)]
    /\ UNCHANGED <<vars, tp_sl_params, sched, generation, bulk_fetch,
                 caches>>

ScoreSpec == ScoreInit /\ [][ScoreReturn]_allvars

(***************************************************************************)
(* A call of generate_parameter_combinations (parameter_generator.py lines *)
(* 11-67, the same code in optimizer_service.py lines 101-157)             *)
(***************************************************************************)
(* param_ranges[name]: min, max and step.  The four integer parameters are *)
(* numbers of candles; tp_base and stop_loss are percentages in            *)
(* thousandths, multiples of 0.125 so that the floating point arithmetic   *)
(* of np.arange is exact.                                                  *)
ParamRange(min, max, step) == [min |-> min, max |-> max, step |-> step]

FastRanges == { ParamRange(2, 3, 1), ParamRange(2, 4, 2), ParamRange(2, 5, 2) }

SlowRanges == { ParamRange(3, 4, 1), ParamRange(2, 2, 1) }

SignalRanges == { ParamRange(9, 9, 1) }

SmaRanges == { ParamRange(50, 50, 1), ParamRange(50, 60, 10) }

PercentRanges ==
    { ParamRange(1000, 2000, 500), ParamRange(1000, 2000, 750),
      ParamRange(500, 500, 250), ParamRange(1000, 1250, 125) }

ParamRangesInputs ==
    [macd_fast : FastRanges, macd_slow : SlowRanges,
     macd_signal : SignalRanges, sma_length : SmaRanges,
     tp_base : PercentRanges, stop_loss : PercentRanges]

(* range(start, stop, step) and np.arange(start, stop, step) with a step   *)
(* > 0: start + i * step for every i >= 0 with start + i * step < stop.    *)
StepsBelow(start, stop, step) ==
    IF stop <= start THEN <<>>
    ELSE [i \in 1..((stop - start + step - 1) \div step) |->
             start + (i - 1) * step]

(* Lines 15-29: range(min, max + 1, step) *)
IntegerValues(rg) == StepsBelow(rg.min, rg.max + 1, rg.step)

(* Lines 31-37: np.arange(min, max + step, step) *)
ArangeValues(rg) == StepsBelow(rg.min, rg.max + rg.step, rg.step)

(* Lines 40-47: itertools.product, the last range running fastest.  The    *)
(* element p (from 0) of the product of the six sequences.                 *)
ProductElement_FirstFastest(v, p) ==
    LET n1 == Len(v[1])
        n2 == Len(v[2])
        n3 == Len(v[3])
        n4 == Len(v[4])
        n5 == Len(v[5])
    IN  << v[1][(p % n1) + 1],
           v[2][((p \div n1) % n2) + 1],
           v[3][((p \div (n1 * n2)) % n3) + 1],
           v[4][((p \div (n1 * n2 * n3)) % n4) + 1],
           v[5][((p \div (n1 * n2 * n3 * n4)) % n5) + 1],
           v[6][(p \div (n1 * n2 * n3 * n4 * n5)) + 1] >>

ProductElement(v, p) ==
    LET n2 == Len(v[2])
        n3 == Len(v[3])
        n4 == Len(v[4])
        n5 == Len(v[5])
        n6 == Len(v[6])
    IN  << v[1][(p \div (n2 * n3 * n4 * n5 * n6)) + 1],
           v[2][((p \div (n3 * n4 * n5 * n6)) % n2) + 1],
           v[3][((p \div (n4 * n5 * n6)) % n3) + 1],
           v[4][((p \div (n5 * n6)) % n4) + 1],
           v[5][((p \div n6) % n5) + 1],
           v[6][(p % n6) + 1] >>

Product(v) ==
    [p \in 1..(Len(v[1]) * Len(v[2]) * Len(v[3]) * Len(v[4]) * Len(v[5])
                 * Len(v[6])) |-> ProductElement(v, p - 1)]

(* Lines 53-60: the dictionary of a combination, tp_base and stop_loss     *)
(* rounded to 2 decimals (in hundredths).                                  *)
CombinationOf(combo) ==
    [macd_fast |-> combo[1], macd_slow |-> combo[2],
     macd_signal |-> combo[3], sma_length |-> combo[4],
     tp_base |-> RoundHalfEven(combo[5], 10),
     stop_loss |-> RoundHalfEven(combo[6], 10)]

(* Lines 14-63 *)
GenerateParameterCombinations(param_ranges) ==
    LET combinations ==
            Product(<< IntegerValues(param_ranges.macd_fast),
                       IntegerValues(param_ranges.macd_slow),
                       IntegerValues(param_ranges.macd_signal),
                       IntegerValues(param_ranges.sma_length),
                       ArangeValues(param_ranges.tp_base),
                       ArangeValues(param_ranges.stop_loss) >>)
        valid == SelectSeq(combinations, LAMBDA combo : combo[1] < combo[2])
    IN  [j \in 1..Len(valid) |-> CombinationOf(valid[j])]

GenerationInit ==
    /\ BacktestAbstracted
    /\ NoOptimizer
    /\ NoCacheCall
    /\ scoring = NoScoring
    /\ bulk_fetch = NoBulkFetch
    /\ \E param_ranges \in ParamRangesInputs :
          generation = [pc |-> "called", param_ranges |-> param_ranges,
                        valid_combinations |-> <<>>, earlier |-> <<>>]

(* Line 63: the list is returned. *)
GenerationReturn ==
    /\ generation.pc = "called"
    /\ generation' =
          [generation EXCEPT
              !.pc = "returned",
              !.valid_combinations =
                  GenerateParameterCombinations(generation.param_ranges)]
    /\ UNCHANGED <<vars, tp_sl_params, sched, scoring, bulk_fetch,
                 caches>>

(* A second call with the same param_ranges; the list of the first call    *)
(* is kept for comparison.                                                 *)
GenerationRepeat ==
    /\ generation.pc = "returned"
    /\ generation' =
          [generation EXCEPT
              !.pc = "repeated",
              !.earlier = generation.valid_combinations,
              !.valid_combinations =
                  GenerateParameterCombinations(generation.param_ranges)]
    /\ UNCHANGED <<vars, tp_sl_params, sched, scoring, bulk_fetch,
                 caches>>

GenerationNext == GenerationReturn \/ GenerationRepeat

GenerationSpec == GenerationInit /\ [][GenerationNext]_allvars

(***************************************************************************)
(* Calls of _get_or_generate_combinations on one optimizer                 *)
(* (per_coin_optimizer.py lines 268-315)                                   *)
(***************************************************************************)
(* A dictionary {'min': .., 'max': .., 'step': ..} as Python keeps it: its *)
(* items in insertion order.                                               *)
RangeDict(first, second, rg) ==
    << <<first, rg[first]>>, <<second, rg[second]>>, <<"step", rg.step>> >>

MinFirst(rg) == RangeDict("min", "max", rg)

MaxFirst(rg) == RangeDict("max", "min", rg)

(* The mapping a dictionary stands for: what == compares and what          *)
(* param_ranges[name]['min'] reads.                                        *)
DictValue(items) ==
    [key \in { items[j][1] : j \in DOMAIN items } |->
        items[CHOOSE j \in DOMAIN items : items[j][1] = key][2]]

RangesValue(param_ranges) ==
    [name \in DOMAIN DictValue(param_ranges) |->
        DictValue(DictValue(param_ranges)[name])]

(* The param_ranges of the requests: one specification written with min    *)
(* first and with max first in macd_fast, one with other values, one whose *)
(* list of combinations is empty (no fast below slow).                     *)
WrittenRanges(fast, slow, percent) ==
    << <<"macd_fast", fast>>, <<"macd_slow", MinFirst(slow)>>,
       <<"macd_signal", MinFirst(ParamRange(9, 9, 1))>>,
       <<"sma_length", MinFirst(ParamRange(50, 50, 1))>>,
       <<"tp_base", MinFirst(percent)>>,
       <<"stop_loss", MinFirst(ParamRange(2000, 2000, 500))>> >>

(* The same items with the first two names exchanged. *)
SlowFirst(param_ranges) ==
    << param_ranges[2], param_ranges[1] >> \o SubSeq(param_ranges, 3, 6)

RequestedRanges ==
    { WrittenRanges(MinFirst(ParamRange(2, 3, 1)), ParamRange(3, 4, 1),
                    ParamRange(1000, 2000, 500)),
      SlowFirst(WrittenRanges(MinFirst(ParamRange(2, 3, 1)),
                              ParamRange(3, 4, 1),
                              ParamRange(1000, 2000, 500))),
      WrittenRanges(MaxFirst(ParamRange(2, 3, 1)), ParamRange(3, 4, 1),
                    ParamRange(1000, 2000, 500)),
      WrittenRanges(MinFirst(ParamRange(2, 3, 1)), ParamRange(3, 4, 1),
                    ParamRange(1000, 1500, 500)),
      WrittenRanges(MinFirst(ParamRange(2, 3, 1)), ParamRange(2, 2, 1),
                    ParamRange(1000, 2000, 500)) }

(* The six names as sorted orders them. *)
SortedNames ==
    << "macd_fast", "macd_signal", "macd_slow", "sma_length", "stop_loss",
       "tp_base" >>

(* Line 270: str(sorted(param_ranges.items())): the items in the sorted    *)
(* order of their names, each dictionary as str writes it, item by item    *)
(* in insertion order.                                                     *)
GetCombinationsCacheKey(param_ranges) ==
    [p \in DOMAIN SortedNames |->
        param_ranges[CHOOSE j \in DOMAIN param_ranges :
                        param_ranges[j][1] = SortedNames[p]]]

MaxCombinationCalls == 3

(* What parameter_combinations.json holds when the optimizer is made:      *)
(* nothing, or the lists saved by an earlier process.                      *)
SavedCaches ==
    { << >> } \cup
    { [key \in {GetCombinationsCacheKey(param_ranges)} |->
          GenerateParameterCombinations(RangesValue(param_ranges))] :
        param_ranges \in RequestedRanges }

(* Lines 41-42: the cache in memory is empty; history is the list of the   *)
(* calls made, each with what it returned and whether it ran the           *)
(* generator.                                                              *)
ComboInit ==
    /\ BacktestAbstracted
    /\ NoOptimizer
    /\ scoring = NoScoring
    /\ generation = NoGeneration
    /\ bulk_fetch = NoBulkFetch
    /\ market_data = NoMarketData
    /\ signal_call = NoSignalCall
    /\ \E saved \in SavedCaches :
          combo_cache = [pc |-> "idle", combinations_cache |-> << >>,
                         combinations_cache_file |-> saved,
                         history |-> << >>]

(* Lines 298-300 and 272-283: an empty cache is loaded from the file. *)
LoadedCombinationsCache ==
    IF combo_cache.combinations_cache = << >>
    THEN combo_cache.combinations_cache_file
    ELSE combo_cache.combinations_cache

(* Lines 294-315: one call.  written tells whether the dump of lines       *)
(* 285-292 succeeded.                                                      *)
GetOrGenerateCombinations(param_ranges, written) ==
    /\ combo_cache.pc = "idle"
    /\ Len(combo_cache.history) < MaxCombinationCalls
    /\ \E cache_key \in {GetCombinationsCacheKey(param_ranges)} :
       \E loaded \in {LoadedCombinationsCache} :
          IF cache_key \in DOMAIN loaded
          THEN combo_cache' =
                  [combo_cache EXCEPT
                      !.combinations_cache = loaded,
                      !.history =
                          Append(@, [param_ranges |-> param_ranges,
                                     returned |-> loaded[cache_key],
                                     generated |-> FALSE])]
          ELSE \E combinations \in
                   {GenerateParameterCombinations(RangesValue(param_ranges))} :
               \E stored \in
                   {[key \in DOMAIN loaded \cup {cache_key} |->
                        IF key = cache_key THEN combinations
                        ELSE loaded[key]]} :
                  combo_cache' =
                      [combo_cache EXCEPT
                          !.combinations_cache = stored,
                          !.combinations_cache_file =
                              IF written THEN stored ELSE @,
                          !.history =
                              Append(@, [param_ranges |-> param_ranges,
                                         returned |-> combinations,
                                         generated |-> TRUE])]
    /\ UNCHANGED <<vars, tp_sl_params, sched, scoring, generation,
                   bulk_fetch, market_data, signal_call>>

ComboNext ==
    \E param_ranges \in RequestedRanges, written \in BOOLEAN :
        GetOrGenerateCombinations(param_ranges, written)

ComboSpec == ComboInit /\ [][ComboNext]_allvars

(* What a call of get_market_data does: it returns a frame with rows, it   *)
(* returns None or a frame without rows, it raises.                        *)
MarketDataOutcomes == {"data", "empty", "raise"}

(***************************************************************************)
(* The market data cache: load_cached_data and get_market_data             *)
(* (base_optimizer.py lines 37-97), load_bulk_symbol_data                  *)
(* (per_coin_optimizer.py lines 101-136)                                   *)
(***************************************************************************)
(* Symbols, intervals and dates are written as their pieces of text; a     *)
(* delivery contract has an underscore in its symbol.                      *)
MarketKeys ==
    { [symbol |-> <<"A">>, interval |-> <<"1h">>,
       start_date |-> <<"d1">>, end_date |-> <<"d2">>],
      [symbol |-> <<"A">>, interval |-> <<"4h">>,
       start_date |-> <<"d1">>, end_date |-> <<"d2">>],
      [symbol |-> <<"A", "_", "1h">>, interval |-> <<"4h">>,
       start_date |-> <<"d1">>, end_date |-> <<"d2">>] }

(* Lines 37-39: f"{symbol}_{interval}_{start_date}_{end_date}.csv" *)
GetCacheFilename(key) ==
    key.symbol \o <<"_">> \o key.interval \o <<"_">> \o key.start_date
        \o <<"_">> \o key.end_date \o <<".csv">>

(* Lines 65-68: the bulk files are named after their cache key. *)
BulkKeys == {"bulk_1"}

(* Ages of files in hours. *)
HoursStep == 12

MaxAgeHours == 60

(* timedelta.days: the whole days of an age. *)
Days(hours) == hours \div 24

(* A file: its age and whether its frame has rows. *)
CacheFile(age, rows) == [age |-> age, rows |-> rows]

Absent == [age |-> 0, rows |-> "absent"]

InitialFiles ==
    { CacheFile(age, rows) :
        age \in {0, 24, 36, 48}, rows \in {"data", "empty"} }

(* No call has been made, or time has passed since the last one. *)
NoCall ==
    [op |-> "none", path |-> <<>>, found |-> Absent, returned |-> "None",
     fetches |-> 0, read |-> {}]

MarketInit ==
    /\ BacktestAbstracted
    /\ NoOptimizer
    /\ scoring = NoScoring
    /\ generation = NoGeneration
    /\ bulk_fetch = NoBulkFetch
    /\ combo_cache = NoComboCache
    /\ signal_call = NoSignalCall
    /\ \E cached \in SUBSET MarketKeys, file \in InitialFiles,
          bulk \in SUBSET BulkKeys :
          /\ Cardinality(cached) <= 1
          /\ market_data =
                [pc |-> "idle",
                 files |-> [path \in { GetCacheFilename(key) :
                                         key \in cached } |-> file],
                 bulk_files |-> [cache_key \in bulk |-> file],
                 last |-> NoCall]

(* The entry of a path in a directory. *)
Found(files, path) == IF path \in DOMAIN files THEN files[path] ELSE Absent

Without(files, path) == [p \in DOMAIN files \ {path} |-> files[p]]

With(files, path, file) ==
    [p \in DOMAIN files \cup {path} |-> IF p = path THEN file ELSE files[p]]

(* Lines 51-62 and 106-114: what a load returns for the entry it finds:    *)
(* the frame of a file of at most 1 whole day, None otherwise.             *)
Loaded(found) ==
    IF found = Absent THEN "None"
    ELSE IF Days(found.age) <= 1 THEN found.rows
    ELSE "None"

(* Lines 58-60 and 111-113: a file of more than 1 whole day is removed. *)
AfterLoad(files, path) ==
    IF path \in DOMAIN files /\ ~(Days(files[path].age) <= 1)
    THEN Without(files, path)
    ELSE files

(* Lines 46-65 *)
LoadCachedData(key) ==
    /\ market_data.pc = "idle"
    /\ \E cache_path \in {GetCacheFilename(key)} :
          market_data' =
              [market_data EXCEPT
                  !.files = AfterLoad(@, cache_path),
                  !.last = [op |-> "load_cached_data", path |-> cache_path,
                            found |-> Found(market_data.files, cache_path),
                            returned |->
                                Loaded(Found(market_data.files, cache_path)),
                            fetches |-> 0, read |-> {cache_path}]]
    /\ UNCHANGED <<vars, tp_sl_params, sched, scoring, generation,
                   bulk_fetch, combo_cache, signal_call>>

(* Lines 101-136; a bulk file without a symbol's records gives an empty    *)
(* dictionary.                                                             *)
LoadBulkSymbolData(cache_key) ==
    /\ market_data.pc = "idle"
    /\ market_data' =
          [market_data EXCEPT
              !.bulk_files = AfterLoad(@, cache_key),
              !.last = [op |-> "load_bulk_symbol_data", path |-> <<cache_key>>,
                        found |-> Found(market_data.bulk_files, cache_key),
                        returned |->
                            Loaded(Found(market_data.bulk_files, cache_key)),
                        fetches |-> 0, read |-> {<<cache_key>>}]]
    /\ UNCHANGED <<vars, tp_sl_params, sched, scoring, generation,
                   bulk_fetch, combo_cache, signal_call>>

(* A get_market_data that writes what it fetched under the name of the     *)
(* symbol alone.                                                           *)
CachedGetMarketData_SymbolFile(key, klines) ==
    /\ market_data.pc = "idle"
    /\ \E cache_path \in {GetCacheFilename(key)} :
       \E cached_data \in {Loaded(Found(market_data.files, cache_path))} :
          market_data' =
              [market_data EXCEPT
                  !.files =
                      IF cached_data # "data" /\ klines = "data"
                      THEN With(AfterLoad(@, cache_path),
                                key.symbol \o <<".csv">>,
                                CacheFile(0, "data"))
                      ELSE AfterLoad(@, cache_path),
                  !.last = [op |-> "get_market_data", path |-> cache_path,
                            found |-> Found(market_data.files, cache_path),
                            returned |->
                                IF cached_data = "data" \/ klines = "data"
                                THEN "data" ELSE "raise",
                            fetches |-> IF cached_data = "data" THEN 0 ELSE 1,
                            read |-> {cache_path}]]
    /\ UNCHANGED <<vars, tp_sl_params, sched, scoring, generation,
                   bulk_fetch, combo_cache, signal_call>>

(* Lines 76-97: klines is what binance_service.get_klines does when it is  *)
(* called: a frame with rows, a frame without rows, an exception.          *)
CachedGetMarketData(key, klines) ==
    /\ market_data.pc = "idle"
    /\ \E cache_path \in {GetCacheFilename(key)} :
       \E cached_data \in {Loaded(Found(market_data.files, cache_path))} :
          market_data' =
              [market_data EXCEPT
                  !.files =
                      IF cached_data # "data" /\ klines = "data"
                      THEN With(AfterLoad(@, cache_path), cache_path,
                                CacheFile(0, "data"))
                      ELSE AfterLoad(@, cache_path),
                  !.last = [op |-> "get_market_data", path |-> cache_path,
                            found |-> Found(market_data.files, cache_path),
                            returned |->
                                IF cached_data = "data" \/ klines = "data"
                                THEN "data" ELSE "raise",
                            fetches |-> IF cached_data = "data" THEN 0 ELSE 1,
                            read |-> {cache_path}]]
    /\ UNCHANGED <<vars, tp_sl_params, sched, scoring, generation,
                   bulk_fetch, combo_cache, signal_call>>

Older(files) ==
    [p \in DOMAIN files |-> CacheFile(files[p].age + HoursStep, files[p].rows)]

(* Time passes: every file is 12 hours older. *)
TimePasses ==
    /\ market_data.pc = "idle"
    /\ \A p \in DOMAIN market_data.files :
          market_data.files[p].age + HoursStep <= MaxAgeHours
    /\ \A p \in DOMAIN market_data.bulk_files :
          market_data.bulk_files[p].age + HoursStep <= MaxAgeHours
    /\ market_data' = [market_data EXCEPT !.files = Older(@),
                                          !.bulk_files = Older(@),
                                          !.last = NoCall]
    /\ UNCHANGED <<vars, tp_sl_params, sched, scoring, generation,
                   bulk_fetch, combo_cache, signal_call>>

MarketNext ==
    \/ \E key \in MarketKeys :
          \/ LoadCachedData(key)
          \/ \E klines \in MarketDataOutcomes :
                CachedGetMarketData(key, klines)
    \/ \E cache_key \in BulkKeys : LoadBulkSymbolData(cache_key)
    \/ TimePasses

MarketSpec == MarketInit /\ [][MarketNext]_allvars

(***************************************************************************)
(* A call of generate_signals (macd_sma_strategy.py lines 20-156)          *)
(***************************************************************************)
(* The frame: closes of SeriesBars candles, flat but for five candles.     *)
(* Row i of the text is row i - 1 of the frame.                            *)
SeriesBars == 24

FlatCloses == {1, 3}

MovingCloses == {1, 4, 5}

MoveStarts == {2, 6, 10, 14, 18, 20}

Series(flat, at, moves) ==
    [i \in 1..SeriesBars |->
        IF i \in at..(at + Len(moves) - 1) THEN moves[i - at + 1] ELSE flat]

StrategyParams ==
    { [macd_fast |-> 2, macd_slow |-> 3, macd_signal |-> 2, sma_length |-> 5],
      [macd_fast |-> 2, macd_slow |-> 4, macd_signal |-> 3, sma_length |-> 6] }

(* Line 115: rolling(20) *)
StrengthWindow == 20

RECURSIVE SumSeq(_)
SumSeq(s) == IF s = <<>> THEN 0 ELSE s[1] + SumSeq(Tail(s))

(* talib.SMA(close, n) at row i times n, defined from row n on. *)
WindowSum(close, i, n) == SumSeq(SubSeq(close, i - n + 1, i))

(* Line 46: fillna(ffill) then fillna(bfill): a row before the first       *)
(* defined one takes the first defined value.                              *)
FilledRow(i, first) == Max(i, first)

(* Lines 36-43, each column as an integer: macd times fast * slow, the     *)
(* histogram times fast * slow * signal.                                   *)
MacdAt(close, strategy_params, i) ==
    strategy_params.macd_slow * WindowSum(close, i, strategy_params.macd_fast)
        - strategy_params.macd_fast * WindowSum(close, i, strategy_params.macd_slow)

FirstMacd(strategy_params) == Max(strategy_params.macd_fast, strategy_params.macd_slow)

FirstHist(strategy_params) == FirstMacd(strategy_params) + strategy_params.macd_signal - 1

HistAt(close, strategy_params, i) ==
    strategy_params.macd_signal * MacdAt(close, strategy_params, i)
        - SumSeq([j \in 1..strategy_params.macd_signal |->
                     MacdAt(close, strategy_params, i - j + 1)])

Macd(close, strategy_params, i) ==
    MacdAt(close, strategy_params, FilledRow(i, FirstMacd(strategy_params)))

Hist(close, strategy_params, i) ==
    HistAt(close, strategy_params, FilledRow(i, FirstHist(strategy_params)))

(* fast_ma times fast, slow_ma times slow, very_slow_ma times sma_length *)
FastSum(close, strategy_params, i) ==
    WindowSum(close, FilledRow(i, strategy_params.macd_fast),
              strategy_params.macd_fast)

SlowSum(close, strategy_params, i) ==
    WindowSum(close, FilledRow(i, strategy_params.macd_slow), strategy_params.macd_slow)

VerySlowSum(close, strategy_params, i) ==
    WindowSum(close, FilledRow(i, strategy_params.sma_length), strategy_params.sma_length)

(* Lines 82-107: the signal before the filter of the weak signals.  A      *)
(* comparison with the undefined value of shift is false.                  *)
EntrySignal(close, strategy_params, i) ==
    LET hist == Hist(close, strategy_params, i)
        macd == Macd(close, strategy_params, i)
        slow == SlowSum(close, strategy_params, i) * strategy_params.sma_length
        very_slow == VerySlowSum(close, strategy_params, i) * strategy_params.macd_slow
        fast == FastSum(close, strategy_params, i) * strategy_params.macd_slow
        slower == SlowSum(close, strategy_params, i) * strategy_params.macd_fast
        shifted == i > strategy_params.macd_slow
        before == close[i - strategy_params.macd_slow] * strategy_params.sma_length
        long_condition ==
            /\ i > 1 /\ hist > 0 /\ Hist(close, strategy_params, i - 1) <= 0
            /\ macd > 0
            /\ fast > slower
            /\ shifted /\ before > VerySlowSum(close, strategy_params, i)
        short_condition ==
            /\ i > 1 /\ hist < 0 /\ Hist(close, strategy_params, i - 1) >= 0
            /\ macd < 0
            /\ fast < slower
            /\ shifted /\ before < VerySlowSum(close, strategy_params, i)
    IN  IF short_condition /\ ~(slow > very_slow) THEN -1
        ELSE IF long_condition /\ ~(slow < very_slow) THEN 1
        ELSE 0

(* Lines 115-131: the strength as a fraction n / d, or NaN in the rows     *)
(* where rolling(20).mean() is not defined.  The 1e-8 of lines 115-116 is  *)
(* left out: a mean of 0 has a numerator of 0 and gives 0.                 *)
SignalStrength(close, strategy_params, i, entry) ==
    IF i < StrengthWindow THEN [nan |-> TRUE, n |-> 0, d |-> 1]
    ELSE LET macd == Abs(Macd(close, strategy_params, i))
             hist == Abs(Hist(close, strategy_params, i))
             macds == Max(1, SumSeq([j \in 1..StrengthWindow |->
                          Abs(Macd(close, strategy_params, i - j + 1))]))
             hists == Max(1, SumSeq([j \in 1..StrengthWindow |->
                          Abs(Hist(close, strategy_params, i - j + 1))]))
             very_slow == VerySlowSum(close, strategy_params, i)
             trend == Max(0, entry * (close[i] * strategy_params.sma_length
                                         - very_slow))
             n == 8 * macd * hists * 5 * very_slow
                    + 8 * hist * macds * 5 * very_slow
                    + trend * macds * hists
             d == macds * hists * 5 * very_slow
         IN  IF entry = 0 THEN [nan |-> FALSE, n |-> 0, d |-> 1]
             ELSE IF n >= d THEN [nan |-> FALSE, n |-> 1, d |-> 1]
             ELSE [nan |-> FALSE, n |-> n, d |-> d]

(* Lines 133-143: a signal whose strength is below 0.2 is set to 0 (a      *)
(* comparison with NaN is false), then NaN is replaced by 0.               *)
SignalRow(close, strategy_params, i) ==
    LET entry == EntrySignal(close, strategy_params, i)
        strength == SignalStrength(close, strategy_params, i, entry)
        weak == ~strength.nan /\ 5 * strength.n < strength.d
    IN  [signal |-> IF weak THEN 0 ELSE entry,
         signal_strength |-> IF strength.nan THEN [n |-> 0, d |-> 1]
                             ELSE [n |-> strength.n, d |-> strength.d]]

GenerateSignals(close, strategy_params) ==
    [i \in 1..Len(close) |-> SignalRow(close, strategy_params, i)]

SignalInit ==
    /\ BacktestAbstracted
    /\ NoOptimizer
    /\ scoring = NoScoring
    /\ generation = NoGeneration
    /\ bulk_fetch = NoBulkFetch
    /\ combo_cache = NoComboCache
    /\ market_data = NoMarketData
    /\ \E flat \in FlatCloses, at \in MoveStarts,
          moves \in [1..5 -> MovingCloses], sp \in StrategyParams :
          signal_call = [pc |-> "called", close |-> Series(flat, at, moves),
                         strategy_params |-> sp, signals |-> <<>>]

(* Line 154: the frame of the signals is returned. *)
SignalReturn ==
    /\ signal_call.pc = "called"
    /\ signal_call' =
          [signal_call EXCEPT
              !.pc = "returned",
              !.signals = GenerateSignals(signal_call.close,
                                          signal_call.strategy_params)]
    /\ UNCHANGED <<vars, tp_sl_params, sched, scoring, generation,
                   bulk_fetch, combo_cache, market_data>>

SignalSpec == SignalInit /\ [][SignalReturn]_allvars

(***************************************************************************)
(* A call of fetch_all_symbols_data_bulk without cached bulk data          *)
(* (per_coin_optimizer.py lines 138-190) and the calls of                  *)
(* _fetch_single_symbol_data_with_retry (lines 192-213) in its pool        *)
(***************************************************************************)
(* Line 192: max_retries=3 *)
max_retries == 3

(* Line 481: the run passes max_workers=1 to the bulk fetch. *)
FetchWorkers == 1

FetchLists == { <<"A">>, <<"A", "B">> }

(* A future of line 157 that no worker has taken: attempt is the loop      *)
(* variable of line 194, outcomes what the calls of get_market_data did.   *)
QueuedFetch ==
    [pc |-> "queued", attempt |-> 0, outcomes |-> <<>>, handled |-> FALSE]

FetchInit ==
    /\ BacktestAbstracted
    /\ NoOptimizer
    /\ NoCacheCall
    /\ scoring = NoScoring
    /\ generation = NoGeneration
    /\ \E symbols \in FetchLists :
          bulk_fetch = [pc |-> "as_completed", symbols |-> symbols,
                        futures |-> [i \in 1..Len(symbols) |-> QueuedFetch],
                        symbols_data |-> << >>, returned |-> << >>]

(* A worker of the pool takes the next future and enters the loop of line  *)
(* 194 with attempt 0.                                                     *)
FetchStart(i) ==
    /\ bulk_fetch.pc = "as_completed"
    /\ i \in DOMAIN bulk_fetch.futures
    /\ bulk_fetch.futures[i].pc = "queued"
    /\ \A j \in 1..(i - 1) : bulk_fetch.futures[j].pc # "queued"
    /\ Cardinality({ j \in DOMAIN bulk_fetch.futures :
                        bulk_fetch.futures[j].pc \in {"try", "backoff"} })
          < FetchWorkers
    /\ bulk_fetch' = [bulk_fetch EXCEPT !.futures[i].pc = "try"]
    /\ UNCHANGED <<vars, tp_sl_params, sched, scoring, generation,
                 caches>>

(* A loop that gives up one attempt later. *)
GetMarketData_OneMoreAttempt(i, outcome) ==
    /\ i \in DOMAIN bulk_fetch.futures
    /\ bulk_fetch.futures[i].pc = "try"
    /\ bulk_fetch' =
          [bulk_fetch EXCEPT
              !.futures[i].outcomes = Append(@, outcome),
              !.futures[i].pc =
                  IF outcome = "data" THEN "returned"
                  ELSE IF bulk_fetch.futures[i].attempt = max_retries
                       THEN "raised"
                       ELSE "backoff"]
    /\ UNCHANGED <<vars, tp_sl_params, sched, scoring, generation,
                 caches>>

(* Lines 196-209: after the delay of line 197 get_market_data is called;   *)
(* a frame with rows is returned, anything else is an exception, which     *)
(* the last attempt raises to the caller.                                  *)
GetMarketData(i, outcome) ==
    /\ i \in DOMAIN bulk_fetch.futures
    /\ bulk_fetch.futures[i].pc = "try"
    /\ bulk_fetch' =
          [bulk_fetch EXCEPT
              !.futures[i].outcomes = Append(@, outcome),
              !.futures[i].pc =
                  IF outcome = "data" THEN "returned"
                  ELSE IF bulk_fetch.futures[i].attempt = max_retries - 1
                       THEN "raised"
                       ELSE "backoff"]
    /\ UNCHANGED <<vars, tp_sl_params, sched, scoring, generation,
                 caches>>

(* Lines 210-211 and 194: the backoff is slept and the next attempt        *)
(* begins.                                                                 *)
Backoff(i) ==
    /\ i \in DOMAIN bulk_fetch.futures
    /\ bulk_fetch.futures[i].pc = "backoff"
    /\ bulk_fetch' = [bulk_fetch EXCEPT !.futures[i].pc = "try",
                                        !.futures[i].attempt = @ + 1]
    /\ UNCHANGED <<vars, tp_sl_params, sched, scoring, generation,
                 caches>>

(* Lines 162-177: as_completed hands a future over; its frame, or None     *)
(* when it raised, is stored under its symbol.                             *)
HandleFetched(i) ==
    /\ bulk_fetch.pc = "as_completed"
    /\ i \in DOMAIN bulk_fetch.futures
    /\ bulk_fetch.futures[i].pc \in {"returned", "raised"}
    /\ ~bulk_fetch.futures[i].handled
    /\ bulk_fetch' =
          [bulk_fetch EXCEPT
              !.futures[i].handled = TRUE,
              !.symbols_data =
                  [s \in DOMAIN @ \cup {bulk_fetch.symbols[i]} |->
                      IF s = bulk_fetch.symbols[i]
                      THEN IF bulk_fetch.futures[i].pc = "returned"
                           THEN "data" ELSE "None"
                      ELSE @[s]]]
    /\ UNCHANGED <<vars, tp_sl_params, sched, scoring, generation,
                 caches>>

(* Lines 179-186: the symbols without a frame are filtered out and the     *)
(* rest is returned.                                                       *)
BulkReturn ==
    /\ bulk_fetch.pc = "as_completed"
    /\ \A i \in DOMAIN bulk_fetch.futures : bulk_fetch.futures[i].handled
    /\ bulk_fetch' =
          [bulk_fetch EXCEPT
              !.pc = "returned",
              !.returned =
                  [s \in { x \in DOMAIN bulk_fetch.symbols_data :
                             bulk_fetch.symbols_data[x] # "None" } |->
                      bulk_fetch.symbols_data[s]]]
    /\ UNCHANGED <<vars, tp_sl_params, sched, scoring, generation,
                 caches>>

FetchNext ==
    \/ \E i \in 1..Len(LongList) :
          \/ FetchStart(i)
          \/ \E outcome \in MarketDataOutcomes : GetMarketData(i, outcome)
          \/ Backoff(i)
          \/ HandleFetched(i)
    \/ BulkReturn

(* The workers of the pool and the fetching thread are scheduled, every    *)
(* call of get_market_data returns or raises, every sleep ends.            *)
FetchSpec == FetchInit /\ [][FetchNext]_allvars /\ WF_allvars(FetchNext)

(***************************************************************************)
(* Properties of run_backtest                                              *)
(***************************************************************************)
(* The step is one iteration of the loop. *)
BarStep == timestamp' = timestamp + 1

IsOpen(pos) == pos.size.n # 0

(* A position was opened by the latest iteration. *)
OpenedThisBar ==
    /\ timestamp > 0
    /\ Len(tp_sl_levels) > 0
    /\ tp_sl_levels[Len(tp_sl_levels)].timestamp = timestamp

(* The latest iteration closed the whole position. *)
FullCloseThisBar == should_close /\ close_percent = 100

(* The position that was open when the latest iteration began is gone. *)
OldPositionGone == ~IsOpen(position) \/ position.entry_time = timestamp

StopReasons == {"Stop Loss", "Trailing Stop"}

(* C1: on a bar where a position is open and the bar's signal is nonzero   *)
(* and opposite to the position's direction, the position is fully closed  *)
(* on that bar, before the new-entry check.                                *)
C1_OppositeSignalCloses ==
    [][(/\ BarStep
        /\ IsOpen(position)
        /\ signal' # 0
        /\ signal' = -position.direction)
       => (/\ should_close'
           /\ close_percent' = 100
           /\ Len(trades') = Len(trades) + 1
           /\ (~IsOpen(position') \/ position'.entry_time = timestamp'))]_vars

(* C2 as stated: a bar that fully closes a position never opens a new      *)
(* position on that same bar.                                              *)
C2_NoSameBarReopen == FullCloseThisBar => ~OpenedThisBar

(* C2 amended: a bar that fully closes a position opens a new position on  *)
(* that same bar exactly when the bar's signal is nonzero and the balance  *)
(* after the close passes the margin check; the new position is entered at *)
(* the bar's price in the signal's direction, otherwise the bar ends flat. *)
C2_SameBarReopen ==
    FullCloseThisBar =>
        /\ OpenedThisBar <=> (signal # 0 /\ balance * 100 >= balance * margin_ratio)
        /\ OpenedThisBar =>
              /\ position.entry_time = timestamp
              /\ position.entry_price = current_price
              /\ position.direction = signal
              /\ position.tps_hit = <<>>
              /\ position.trailing_stop = 0
        /\ ~OpenedThisBar => position = FlatPosition

C2_Witness ==
    /\ FullCloseThisBar
    /\ OpenedThisBar
    /\ IsOpen(position)
    /\ trades[Len(trades)].exit_time = position.entry_time

(* C3 as stated: a position is flat again after a stop-loss hit, after a   *)
(* trailing-stop hit, and after the last level of its TP ladder is hit,    *)
(* for any tp_close.                                                       *)
C3_FlatAfterLadder ==
    /\ (should_close /\ close_reason \in StopReasons) => OldPositionGone
    /\ (should_close /\ close_reason = TPNames[max_tps]) => OldPositionGone

(* C3 amended: a position is flat again after a stop-loss hit, after a     *)
(* trailing-stop hit, and after a TP hit with tp_close = 100 %; a TP hit   *)
(* with tp_close < 100 %, the hit of the last level included, leaves the   *)
(* position open with remaining_size multiplied by (1 - tp_close).         *)
C3_FlatAfterStopOrFullTp ==
    [][BarStep =>
        /\ (should_close' /\ (close_reason' \in StopReasons \/ close_percent' = 100))
              => (~IsOpen(position') \/ position'.entry_time = timestamp')
        /\ (should_close' /\ StartsWithTP(close_reason') /\ close_percent' < 100)
              => /\ IsOpen(position')
                 /\ position'.entry_time = position.entry_time
                 /\ position'.size = position.size
                 /\ position'.remaining_size =
                        RatMul(position.remaining_size,
                               Rat(100 - tp_close_percent, 100))]_vars

C3_Witness ==
    /\ IsOpen(position)
    /\ should_close
    /\ close_reason = TPNames[max_tps]
    /\ Len(position.tps_hit) = max_tps
    /\ \A i \in 1..max_tps : position.tp_levels[i].hit

(* The price is at or beyond the level on the losing side of the position. *)
Breached(pos, price, level) ==
    \/ pos.direction = 1 /\ price <= level
    \/ pos.direction = -1 /\ price >= level

(* C4: the exit check tests the fixed stop loss, then the armed trailing   *)
(* stop, then the take profits: a breach of the fixed SL closes the whole  *)
(* position with reason "Stop Loss" even if an armed trailing stop is      *)
(* breached too, and a TP close is returned only when no stop is breached. *)
C4_ExitPriority ==
    [][(BarStep /\ IsOpen(position)) =>
        LET sl_hit == Breached(position, current_price', position.sl_level)
            ts_hit == /\ position.trailing_stop > 0
                      /\ Breached(position, current_price',
                                  EffectiveTrailingStop(position))
        IN  /\ sl_hit => /\ should_close'
                         /\ close_reason' = "Stop Loss"
                         /\ close_percent' = 100
            /\ (~sl_hit /\ ts_hit) => /\ should_close'
                                      /\ close_reason' = "Trailing Stop"
                                      /\ close_percent' = 100
            /\ StartsWithTP(close_reason') => (~sl_hit /\ ~ts_hit)]_vars

(* A stop loss closed a position whose trailing stop was armed by a TP. *)
C4_Witness ==
    /\ Len(trades) >= 2
    /\ trades[Len(trades)].exit_reason = "Stop Loss"
    /\ trades[Len(trades)].exit_time = timestamp
    /\ trades[Len(trades) - 1].exit_reason = "TP1"
    /\ trades[Len(trades) - 1].entry_time = trades[Len(trades)].entry_time

HitLevels(pos) == { i \in 1..Len(pos.tp_levels) : pos.tp_levels[i].hit }

(* C5: a bar produces at most one exit and at most one trade record; when  *)
(* the price has crossed several unhit TP levels, only the lowest-numbered *)
(* of them is marked hit and closed, the others stay unhit.                *)
C5_OneExitPerBar ==
    [][BarStep =>
        /\ Len(trades') <= Len(trades) + 1
        /\ Len(trades') = Len(trades) + 1 <=> should_close'
        /\ (IsOpen(position) /\ StartsWithTP(close_reason')) =>
              LET first == MinOf(CrossedUnhit(position, current_price'))
              IN  /\ close_reason' = TPNames[first]
                  /\ trades'[Len(trades')].exit_reason = TPNames[first]
                  /\ position'.entry_time = position.entry_time =>
                        /\ HitLevels(position') = HitLevels(position) \cup {first}
                        /\ position'.tps_hit = Append(position.tps_hit, first)]_vars

(* The bar's price is beyond two unhit levels and one of them was hit. *)
C5_Witness ==
    /\ IsOpen(position)
    /\ close_reason = "TP1"
    /\ HitLevels(position) = {1}
    /\ CrossedUnhit(position, current_price) # {}

(* The level, moved to the fixed SL of the position when it is worse. *)
ClampToFixedSL(pos, level) ==
    IF pos.direction = 1 THEN Max(level, pos.sl_level)
    ELSE Min(level, pos.sl_level)

(* C6: during the life of a position the trailing stop changes only on a   *)
(* bar where a TP level is hit; TP levels are hit in the order 1, 2, ...,  *)
(* k; after the 1st hit the stop is the entry price, after the k-th hit    *)
(* (k >= 2) the price of level k-1, each clamped toward the fixed SL; once *)
(* armed it never moves in the unfavourable direction.                     *)
C6_TrailingStopAdvances ==
    [][(/\ BarStep
        /\ IsOpen(position)
        /\ IsOpen(position')
        /\ position'.entry_time = position.entry_time) =>
        LET k == Len(position'.tps_hit)
        IN  /\ position'.trailing_stop # position.trailing_stop
                  => StartsWithTP(close_reason')
            /\ position'.tps_hit = [i \in 1..k |-> i]
            /\ StartsWithTP(close_reason') =>
                  /\ k = Len(position.tps_hit) + 1
                  /\ close_reason' = TPNames[k]
                  /\ position'.trailing_stop =
                        ClampToFixedSL(position,
                                       IF k = 1 THEN position.entry_price
                                       ELSE position.tp_levels[k - 1].price)
            /\ ~StartsWithTP(close_reason') => k = Len(position.tps_hit)
            /\ position.trailing_stop > 0 =>
                  /\ position.direction = 1
                        => position'.trailing_stop >= position.trailing_stop
                  /\ position.direction = -1
                        => position'.trailing_stop <= position.trailing_stop]_vars

(* The 2nd TP was hit and the trailing stop stands at the price of TP1. *)
C6_Witness ==
    /\ IsOpen(position)
    /\ close_reason = "TP2"
    /\ Len(position.tps_hit) = 2
    /\ position.trailing_stop = position.tp_levels[1].price
    /\ position.trailing_stop # position.entry_price

(* C7: whenever a trailing stop is armed, the effective trailing stop of   *)
(* the exit check is at least as favourable as the fixed SL of the         *)
(* position: >= it for a long, <= it for a short.                          *)
C7_TrailingNeverWorseThanSL ==
    (IsOpen(position) /\ position.trailing_stop > 0) =>
        /\ position.direction = 1
              => EffectiveTrailingStop(position) >= position.sl_level
        /\ position.direction = -1
              => EffectiveTrailingStop(position) <= position.sl_level

C7_Witness ==
    /\ IsOpen(position)
    /\ position.trailing_stop > 0
    /\ position.direction = -1
    /\ EffectiveTrailingStop(position) < position.sl_level

(* balance < balance * margin_pct / 100 *)
MarginUnavailable(bal) == bal * 100 < bal * margin_ratio

(* C8: no position is opened on a bar where balance < balance *            *)
(* margin_pct / 100; on such a bar that starts flat the signal is ignored: *)
(* the simulator stays flat, balance, trades and counters are unchanged.   *)
C8_MarginInvariant ==
    [][BarStep =>
        /\ OpenedThisBar' => ~MarginUnavailable(balance')
        /\ (~IsOpen(position) /\ signal' # 0 /\ MarginUnavailable(balance)) =>
              /\ position' = FlatPosition
              /\ balance' = balance
              /\ trades' = trades
              /\ tp_sl_levels' = tp_sl_levels
              /\ total_trades' = total_trades
              /\ winning_trades' = winning_trades
              /\ total_pnl' = total_pnl]_vars

(* A signal arrived on a flat bar and was ignored for lack of margin. *)
C8_Witness ==
    /\ timestamp > 0
    /\ signal # 0
    /\ ~should_close
    /\ MarginUnavailable(balance)
    /\ position = FlatPosition

(* price_change_pct / 100 of the position at the price *)
PriceChange(pos, price) ==
    IF pos.direction = 1
    THEN Rat(price - pos.entry_price, pos.entry_price)
    ELSE Rat(pos.entry_price - price, pos.entry_price)

(* price_change_pct / 100 * (size * entry_price) * leverage *)
PnlOfSize(pos, price, size) ==
    Round(RatMul(RatMul(PriceChange(pos, price),
                        RatMul(size, Rat(pos.entry_price, 1))),
                 Rat(leverage, 1)))

(* C9: on every bar with an open position the unrealized PnL of the        *)
(* equity-curve row is price_change_pct / 100 * (remaining_size *          *)
(* entry_price) * leverage, and equity = balance + that unrealized PnL.    *)
C9_UnrealizedFromRemainingSize ==
    (timestamp > 0 /\ IsOpen(position)) =>
        LET row == equity_curve[Len(equity_curve)]
        IN  /\ row.unrealized_pnl =
                  PnlOfSize(position, current_price, position.remaining_size)
            /\ row.equity = row.balance + row.unrealized_pnl

RECURSIVE SumPnl(_)
SumPnl(ts) == IF ts = <<>> THEN 0 ELSE ts[1].pnl + SumPnl(Tail(ts))

(* C10: every close adds the same net amount (pnl - commission) to balance *)
(* and to total_pnl, adds one to total_trades, and adds one to             *)
(* winning_trades exactly when the net amount is > 0; after every bar      *)
(* balance = initial_balance + total_pnl = initial_balance + the sum of    *)
(* the pnl of the trade records, total_trades is the number of trade       *)
(* records and winning_trades <= total_trades.                             *)
C10_Accounting ==
    [][BarStep =>
        /\ should_close' =>
              LET t == trades'[Len(trades')]
                  net == PnlOfSize(position, current_price',
                                   RatMul(position.remaining_size,
                                          Rat(close_percent', 100)))
                         - t.commission
              IN  /\ t.pnl = net
                  /\ balance' = balance + net
                  /\ total_pnl' = total_pnl + net
                  /\ total_trades' = total_trades + 1
                  /\ winning_trades' =
                        winning_trades + (IF net > 0 THEN 1 ELSE 0)
        /\ ~should_close' =>
              /\ balance' = balance
              /\ total_pnl' = total_pnl
              /\ total_trades' = total_trades
              /\ winning_trades' = winning_trades
        /\ balance' = initial_balance + total_pnl'
        /\ total_pnl' = SumPnl(trades')
        /\ total_trades' = Len(trades')
        /\ winning_trades' <= total_trades']_vars

(* Winning and losing closes, partial and full, have been booked. *)
C10_Witness ==
    /\ Len(trades) >= 3
    /\ 0 < winning_trades
    /\ winning_trades < total_trades
    /\ \E i \in 1..Len(trades) : trades[i].size_closed < 100
    /\ balance # initial_balance

(* The equity of the latest bar: the last row of the equity curve. *)
LastEquity(curve) == curve[Len(curve)].equity

(* C11: across the bars of a run the tracked peak equity never decreases   *)
(* and changes only on a bar whose equity exceeds it, to that equity;      *)
(* max_drawdown never decreases; after every bar max_drawdown is at least  *)
(* (peak - equity) / peak of that bar.                                     *)
C11_DrawdownMonotonic ==
    [][BarStep =>
        LET equity == LastEquity(equity_curve')
        IN  /\ peak_balance' >= peak_balance
            /\ peak_balance' # peak_balance =>
                  (equity > peak_balance /\ peak_balance' = equity)
            /\ equity > peak_balance => peak_balance' = equity
            /\ ~RatLess(max_drawdown', max_drawdown)
            /\ peak_balance' >= equity
            /\ ~RatLess(max_drawdown',
                        Rat(peak_balance' - equity, peak_balance'))]_vars

(* The peak has risen above the initial balance, a drawdown from it is     *)
(* recorded, and the latest bar's drawdown is smaller than the maximum.    *)
C11_Witness ==
    /\ timestamp >= 3
    /\ peak_balance > initial_balance
    /\ LastEquity(equity_curve) < peak_balance
    /\ RatLess(Rat(peak_balance - LastEquity(equity_curve), peak_balance),
               max_drawdown)

(* C12: the TP ladder built at an entry has the levels 1..max_tps, each    *)
(* strictly farther from the entry price than the level before it (the    *)
(* first: than the entry price) in the favourable direction of the        *)
(* position, rising for a long and falling for a short; the fixed SL is   *)
(* on the other side of the entry price.                                  *)
C12_LadderOrdered ==
    IsOpen(position) =>
        LET e == position.entry_price
            d == position.direction
            L == position.tp_levels
        IN  /\ Len(L) = max_tps
            /\ \A i \in 1..max_tps :
                  /\ L[i].level = i
                  /\ d * (L[i].price - (IF i = 1 THEN e ELSE L[i - 1].price)) > 0
            /\ d * (position.sl_level - e) < 0
            /\ tp_sl_levels[Len(tp_sl_levels)].tp_levels = L
            /\ tp_sl_levels[Len(tp_sl_levels)].sl_level = position.sl_level

(* A short position with a ladder of at least three levels was entered. *)
C12_Witness ==
    /\ IsOpen(position)
    /\ position.direction = -1
    /\ position.entry_price = 700
    /\ Len(position.tp_levels) >= 3
    /\ position.tp_levels[3].price < position.tp_levels[2].price

(* The trade records are TP closes of half the remaining size with a       *)
(* positive net pnl, in ladder order from TP1 on consecutive rows.         *)
TpRecordsInOrder ==
    \A i \in 1..Len(trades) :
        /\ trades[i].exit_reason = TPNames[i]
        /\ trades[i].exit_time = i + 1
        /\ trades[i].entry_time = 1
        /\ trades[i].size_closed = 50
        /\ trades[i].pnl > 0

(* C13 as stated: on the rising series TP1 then TP2 are hit before any     *)
(* stop loss and the run returns exactly two partial-close trade records,  *)
(* each with a positive net pnl.                                           *)
C13_TwoPartialCloses ==
    pc = "done" => (Len(trades) = 2 /\ TpRecordsInOrder)

(* C13 amended: on the rising series TP1, TP2 and TP3 are hit on the three *)
(* rows after the entry and no stop is hit; the run returns exactly three  *)
(* partial-close trade records, each with a positive net pnl, and the      *)
(* position is still open with one eighth of its size.                     *)
C13_ThreePartialCloses ==
    /\ TpRecordsInOrder
    /\ timestamp >= 1 => Len(trades) = Min(timestamp - 1, 3)
    /\ timestamp >= 4 =>
          /\ IsOpen(position)
          /\ position.entry_time = 1
          /\ position.tps_hit = <<1, 2, 3>>
          /\ position.remaining_size = RatMul(position.size, Rat(1, 8))
    /\ pc = "done" => (Len(trades) = 3 /\ total_trades = 3
                        /\ winning_trades = 3)

(* The run on the whole series has returned. *)
C13_Witness ==
    /\ pc = "done"
    /\ timestamp = ScenarioBars + 1
    /\ Len(trades) = 3
    /\ trades[2].exit_reason = "TP2"
    /\ statistics.total_trades = 3

(***************************************************************************)
(* Properties of the optimizers                                            *)
(***************************************************************************)
(* The optimization threads that are executing _run_per_coin_optimization  *)
(* (tier "per_coin") or _run_optimization (tier "single").                 *)
ActiveRuns == { r \in RunIds : runs[r].pc \notin {"none", "done"} }

(* C14: in every reachable state at most one optimization thread of the    *)
(* optimizer is executing its run, whatever the interleaving of the start, *)
(* forced start and stop calls of concurrent callers.                      *)
C14_OneActiveRun == Cardinality(ActiveRuns) <= 1

(* The step is the entry of caller c into a start or forced start call. *)
EntersStart(c) ==
    /\ calls' = calls + 1
    /\ callers[c].pc = "idle"
    /\ callers'[c] # callers[c]
    /\ callers'[c].op \in {"start", "force"}

AlreadyRunning ==
    {"Per-coin optimization is already running",
     "Optimization is already running"}

(* C15: a start or forced start call (of either optimizer) made while      *)
(* is_running is true returns (False, message) and modifies nothing:       *)
(* symbols_queue, completed_symbols, failed_symbols, best_results,         *)
(* total_symbols, the progress counters, the optimization thread, the      *)
(* flag, the threads and the pools are as before; no thread is created.    *)
C15_RejectedStartChangesNothing ==
    [][\A c \in Callers :
          (is_running /\ EntersStart(c)) =>
              /\ callers'[c].pc = "idle"
              /\ callers'[c].ret.success = FALSE
              /\ callers'[c].ret.message \in AlreadyRunning
              /\ UNCHANGED <<is_running, in_flight, results_lock,
                             coin_settings, runs, tasks>>]_allvars

(* A start call was rejected while a run is active with a backtest in      *)
(* flight. *)
C15_Witness ==
    /\ is_running
    /\ \E c \in Callers :
          /\ callers[c].pc = "idle"
          /\ callers[c].op \in {"start", "force"}
          /\ callers[c].ret.message \in AlreadyRunning
    /\ \E r \in ActiveRuns, i \in Futures : RunningCombos(r, i) # {}

(* C16: whenever a start was accepted and set the flag, a state with       *)
(* is_running false follows: by the end of the run, by a stop call, by the *)
(* missing market data or by an exception, given that the threads are      *)
(* scheduled and every submitted backtest terminates.                      *)
C16_RunningEnds == is_running ~> ~is_running

(* A run whose start call returned success went through its finally        *)
(* clause and the flag is down. *)
C16_Witness ==
    /\ ~is_running
    /\ \E r \in RunIds : runs[r].pc = "done"
    /\ \E c \in Callers :
          /\ callers[c].op \in {"start", "force"}
          /\ callers[c].ret.success

(* The step starts a symbol work unit (_optimize_symbol_with_tracking on   *)
(* a symbol with data) or a combination work unit (run_single_backtest).   *)
StartsSymbolUnit(r, s) ==
    /\ tasks[r, s].state = "queued"
    /\ tasks'[r, s].state = "running"

StartsCombinationUnit(r, s, k) ==
    /\ tasks[r, s].combos[k] = "queued"
    /\ tasks'[r, s].combos[k] = "running"

(* C17: once is_running is false (stop was called and no start follows),   *)
(* the per-coin run starts no further symbol work unit and no further      *)
(* combination work unit.                                                  *)
C17_NoWorkUnitAfterStop ==
    [][~is_running =>
          \A r \in RunIds, s \in Futures :
              /\ ~StartsSymbolUnit(r, s)
              /\ \A k \in Combinations : ~StartsCombinationUnit(r, s, k)]_allvars

(* C18: the TP ladder and the fixed SL of the position that a run opens    *)
(* are computed from the tp_base and stop_loss of that run's own           *)
(* tp_sl_params, also while other combinations are backtested on the same  *)
(* service by the other workers of the pool.                               *)
C18_OwnTpSlUsed ==
    IsOpen(position) =>
        /\ \A i \in 1..Len(position.tp_levels) :
              position.tp_levels[i].percent = tp_sl_params.tp_base * i
        /\ position.sl_level =
              PercentLevel(position.entry_price, -position.direction,
                           tp_sl_params.stop_loss)

(* C19: a step that changes best_results, completed_symbols or            *)
(* failed_symbols is taken while results_lock is held (by the writer: a    *)
(* write while nobody holds the lock is a write without it).               *)
C19_WritesUnderLock ==
    [][(\/ best_results' # best_results
        \/ completed_symbols' # completed_symbols
        \/ failed_symbols' # failed_symbols) =>
           results_lock # Unlocked]_allvars

(* The stored optimization_score of the symbol is a number > 0, resp. a    *)
(* number <= 0 or absent.                                                  *)
ScoreAboveZero(s) ==
    /\ LoadCoinSettings(s).comparable
    /\ LoadCoinSettings(s).optimization_score > 0

ScoreNotAboveZero(s) ==
    /\ LoadCoinSettings(s).comparable
    /\ LoadCoinSettings(s).optimization_score <= 0

(* The step in which the start call of caller c builds its worklist. *)
BuildsWorklist(c) ==
    /\ callers[c].pc = "checked"
    /\ callers'[c] # callers[c]
    /\ Len(callers[c].symbols) > 0

(* C20: the worklist of a non-forced start holds, in input order, every    *)
(* given symbol whose stored score is <= 0 or absent and no symbol whose   *)
(* stored score is > 0; a forced start keeps every given symbol; a         *)
(* non-forced start whose symbols all have a score > 0 is rejected and     *)
(* leaves the optimizer as it was.                                         *)
C20_WorklistFiltered ==
    [][\A c \in Callers :
          BuildsWorklist(c) =>
              LET symbols == callers[c].symbols
                  force == callers[c].force
                  worklist == symbols_queue'
                  accepted == callers'[c].pc = "initialized"
              IN  /\ accepted =>
                        /\ \A s \in Range(worklist) : s \in Range(symbols)
                        /\ worklist =
                              SelectSeq(symbols,
                                        LAMBDA s : s \in Range(worklist))
                        /\ \A s \in Range(symbols) :
                              ScoreNotAboveZero(s) => s \in Range(worklist)
                        /\ ~force =>
                              \A s \in Range(worklist) : ~ScoreAboveZero(s)
                        /\ force => worklist = symbols
                  /\ (~force /\ \A s \in Range(symbols) : ScoreAboveZero(s)) =>
                        /\ ~accepted
                        /\ callers'[c].ret.success = FALSE
                        /\ UNCHANGED <<is_running, in_flight, runs, tasks>>]_allvars

(***************************************************************************)
(* Properties of a per-coin run that is not stopped                        *)
(***************************************************************************)
(* How often the list names the symbol. *)
Occurrences(seq, s) == Cardinality({ j \in 1..Len(seq) : seq[j] = s })

(* The optimization thread has left its loop over the batches (line 497)   *)
(* and nobody has stopped the run.                                         *)
RunCompleted(r) == runs[r].pc = "finally" /\ is_running

(* The symbol is once in completed_symbols or failed_symbols together. *)
RecordedOnce(s) ==
    Occurrences(completed_symbols, s) + Occurrences(failed_symbols, s) = 1

(* C21: when a per-coin run has completed without being stopped, every     *)
(* symbol with valid market data is exactly once in completed_symbols or   *)
(* failed_symbols: not in both, not twice.                                 *)
C21_EachSymbolOnce ==
    \A r \in RunIds :
        RunCompleted(r) =>
            \A s \in Range(runs[r].valid_symbols) : RecordedOnce(s)

(* The same for the runs whose request list names no symbol twice. *)
EachSymbolOnceWithoutRepetition ==
    \A r \in RunIds :
        (/\ RunCompleted(r)
         /\ \A s \in Symbols : Occurrences(runs[r].symbols, s) <= 1) =>
            \A s \in Range(runs[r].valid_symbols) : RecordedOnce(s)

(* The loop of lines 547-574 takes the future i of the run in this step. *)
HandlesFuture(r, i) == ~tasks[r, i].handled /\ tasks'[r, i].handled

(* C22: a symbol whose optimization succeeded and whose result could not   *)
(* be saved is appended to failed_symbols with its result stored in        *)
(* best_results; a symbol whose optimization failed is appended to         *)
(* failed_symbols and nothing is stored in best_results for it.            *)
C22_SaveFailureDistinct ==
    [][\A r \in RunIds, i \in Futures :
          (HandlesFuture(r, i) /\ failed_symbols' # failed_symbols) =>
              LET symbol == runs[r].batch_symbols[i]
              IN  /\ failed_symbols' = Append(failed_symbols, symbol)
                  /\ completed_symbols' = completed_symbols
                  /\ IF tasks[r, i].success
                     THEN /\ symbol \in DOMAIN best_results'
                          /\ best_results'[symbol] = tasks[r, i].best
                     ELSE best_results' = best_results]_allvars

(* A run has completed with a symbol whose save failed and a symbol whose  *)
(* optimization failed: both are in failed_symbols, only the first is in   *)
(* best_results.                                                           *)
C22_Witness ==
    /\ \E r \in RunIds : RunCompleted(r)
    /\ \E s1, s2 \in Range(failed_symbols) :
          /\ s1 \in DOMAIN best_results
          /\ s2 \notin DOMAIN best_results

(* C23: in a run that has completed with the data of some of its symbols,   *)
(* a symbol of the request whose data fetch failed is in failed_symbols     *)
(* and not in best_results, and every other symbol was optimized.           *)
C23_FetchFailureRecorded ==
    \A r \in RunIds :
        (RunCompleted(r) /\ runs[r].valid_symbols # <<>>) =>
            /\ \A s \in Range(runs[r].symbols) \ Range(runs[r].valid_symbols) :
                  /\ s \in Range(failed_symbols)
                  /\ s \notin DOMAIN best_results
            /\ \A s \in Range(runs[r].valid_symbols) :
                  s \in Range(completed_symbols) \cup Range(failed_symbols)

(* The future i of the run returns in this step. *)
ReturnsResult(r, i) ==
    tasks[r, i].state = "running" /\ tasks'[r, i].state = "done"

(* C25: when the optimization of a symbol returns, every combination was   *)
(* run and counted in the progress, also when others gave no result, and   *)
(* the ranked list holds the result of every combination that gave one,    *)
(* once, and nothing else.                                                 *)
C25_FailedCombinationSkipped ==
    [][\A r \in RunIds, i \in Futures :
          ReturnsResult(r, i) =>
              LET returned == tasks[r, i].returned
                  ranked == tasks'[r, i].results
                  succeeded == { k \in runs[r].combinations : returned[k].ok }
              IN  /\ \A k \in runs[r].combinations :
                        tasks[r, i].combos[k] = "done"
                  /\ current_symbol_progress =
                        Cardinality(runs[r].combinations)
                  /\ Len(ranked) = Cardinality(succeeded)
                  /\ \A k \in succeeded :
                        \E j \in 1..Len(ranked) : ranked[j] = returned[k]
                  /\ tasks'[r, i].success = (succeeded # {})]_allvars

(* Every combination of a symbol was handled, one without a result and one *)
(* with a result. *)
C25_Witness ==
    \E r \in RunIds, i \in Futures :
        /\ tasks[r, i].state = "running"
        /\ tasks[r, i].seen = runs[r].combinations
        /\ \E k \in runs[r].combinations : ~tasks[r, i].returned[k].ok
        /\ \E k \in runs[r].combinations : tasks[r, i].returned[k].ok
        /\ current_symbol_progress = Cardinality(runs[r].combinations)

(* C27: the result that the loop stores in best_results[symbol] and hands  *)
(* to save_optimization_result for a future is the best of the results     *)
(* that were collected for it: no collected result has a higher score.     *)
C27_BestResultStored ==
    [][\A r \in RunIds, i \in Futures :
          (HandlesFuture(r, i) /\ tasks[r, i].success) =>
              LET symbol == runs[r].batch_symbols[i]
                  collected == tasks[r, i].results
              IN  /\ best_results'[symbol] \in Range(collected)
                  /\ \A j \in 1..Len(collected) :
                        best_results'[symbol].score >= collected[j].score
                  /\ coin_settings'[symbol].optimization_score =
                        best_results'[symbol].score]_allvars

(* The stored result of a symbol is the one of the second combination,     *)
(* with a higher score than the one of the first.                          *)
C27_Witness ==
    \E r \in RunIds, i \in Futures :
        /\ tasks[r, i].handled
        /\ Len(tasks[r, i].results) = 2
        /\ tasks[r, i].results[1].combination = 2
        /\ tasks[r, i].results[1].score > tasks[r, i].results[2].score
        /\ runs[r].batch_symbols[i] \in DOMAIN best_results
        /\ best_results[runs[r].batch_symbols[i]] = tasks[r, i].results[1]

(***************************************************************************)
(* Properties of the ranking of the optimizer service                      *)
(***************************************************************************)
(* C26: when the optimization of the service has stored its results,       *)
(* best_results is ordered by score non-increasing, has at most 100        *)
(* entries, all of them collected results, as many as were collected up    *)
(* to 100, and no collected result that was left out has a higher score    *)
(* than one that was kept.                                                 *)
C26_TopResultsKept ==
    \A r \in RunIds :
        (tier = "single" /\ runs[r].pc = "svc_finally"
            /\ tasks[r, SvcPool].state = "done") =>
            LET collected == Range(tasks[r, SvcPool].results)
                kept == Range(best_results)
            IN  /\ \A j \in 1..(Len(best_results) - 1) :
                      best_results[j].score >= best_results[j + 1].score
                /\ Len(best_results) <= 100
                /\ kept \subseteq collected
                /\ Cardinality(kept) = Len(best_results)
                /\ Len(best_results) = Min(100, Cardinality(collected))
                /\ \A x \in collected \ kept : \A y \in kept :
                      x.score <= y.score

(* More than 100 results of different scores were collected and the        *)
(* first of the kept ones was collected after the hundredth.               *)
C26_Witness ==
    \E r \in RunIds :
        /\ tier = "single"
        /\ runs[r].pc = "svc_finally"
        /\ Len(tasks[r, SvcPool].results) > 100
        /\ Len(best_results) = 100
        /\ best_results[1].combination > 100
        /\ best_results[1].score > best_results[100].score

(***************************************************************************)
(* Properties of the optimization score                                    *)
(***************************************************************************)
(* The statistics of a backtest without trades. *)
ZeroTrades(stats) ==
    /\ StatKeys \subseteq DOMAIN stats
    /\ stats.total_trades = 0
    /\ stats.win_rate = 0
    /\ stats.total_return = 0
    /\ stats.max_drawdown = 0

(* C28: _calculate_optimization_score returns 0 for the statistics of a    *)
(* backtest with zero trades and for statistics that make the computation  *)
(* raise.                                                                  *)
C28_DegenerateScoresZero ==
    (/\ scoring.pc = "returned"
     /\ \/ ZeroTrades(scoring.stats)
        \/ ~(StatKeys \subseteq DOMAIN scoring.stats)) =>
        scoring.score = 0

(* C29: for total_trades >= 0, total_return >= -100 %, win_rate and        *)
(* max_drawdown in [0, 100] % the score is in [0, 10].                     *)
C29_ScoreBounded ==
    (/\ scoring.pc = "returned"
     /\ StatKeys \subseteq DOMAIN scoring.stats
     /\ scoring.stats.total_trades >= 0
     /\ scoring.stats.total_return >= -10000
     /\ scoring.stats.win_rate \in 0..10000
     /\ scoring.stats.max_drawdown \in 0..10000) =>
        scoring.score \in 0..1000

(***************************************************************************)
(* Properties of the parameter combinations                                *)
(***************************************************************************)
(* The values from min to max inclusive by step. *)
MinToMax(rg) == { x \in rg.min..rg.max : (x - rg.min) % rg.step = 0 }

(* The cross product of the six ranges, tp_base and stop_loss rounded to   *)
(* 2 decimals, restricted to fast < slow.                                  *)
ExpectedCombinations(param_ranges) ==
    { c \in [macd_fast : MinToMax(param_ranges.macd_fast),
              macd_slow : MinToMax(param_ranges.macd_slow),
              macd_signal : MinToMax(param_ranges.macd_signal),
              sma_length : MinToMax(param_ranges.sma_length),
              tp_base : { RoundHalfEven(x, 10) :
                            x \in MinToMax(param_ranges.tp_base) },
              stop_loss : { RoundHalfEven(x, 10) :
                              x \in MinToMax(param_ranges.stop_loss) }] :
        c.macd_fast < c.macd_slow }

(* C30: the returned list holds exactly the combinations of the cross      *)
(* product of the six ranges (each from min to max inclusive by step,      *)
(* tp_base and stop_loss rounded to 2 decimals and not above max) with     *)
(* fast < slow, each of them once.                                         *)
C30_ExactCrossProduct ==
    generation.pc = "returned" =>
        LET returned == generation.valid_combinations
            param_ranges == generation.param_ranges
        IN  /\ Range(returned) = ExpectedCombinations(param_ranges)
            /\ Len(returned) = Cardinality(ExpectedCombinations(param_ranges))
            /\ \A j \in 1..Len(returned) :
                  /\ returned[j].macd_fast < returned[j].macd_slow
                  /\ 10 * returned[j].tp_base <= param_ranges.tp_base.max
                  /\ 10 * returned[j].stop_loss <= param_ranges.stop_loss.max

(* The same for the ranges of tp_base and stop_loss whose step divides     *)
(* max - min.                                                              *)
ExactCrossProductWhenStepDivides ==
    (/\ generation.pc = "returned"
     /\ \A name \in {"tp_base", "stop_loss"} :
           LET rg == generation.param_ranges[name]
           IN  (rg.max - rg.min) % rg.step = 0) =>
        LET returned == generation.valid_combinations
            param_ranges == generation.param_ranges
        IN  /\ Range(returned) = ExpectedCombinations(param_ranges)
            /\ Len(returned) = Cardinality(ExpectedCombinations(param_ranges))

(***************************************************************************)
(* Properties of the fetch with retries                                    *)
(***************************************************************************)
(* What the calls of get_market_data of one future show: at most 3 calls,  *)
(* none after a call that gave data, a return only with the data of the    *)
(* last call, a raise only after three calls without data.                 *)
RetryBounded(f) ==
    /\ Len(f.outcomes) <= 3
    /\ \A j \in 1..(Len(f.outcomes) - 1) : f.outcomes[j] # "data"
    /\ f.pc = "returned" =>
          /\ f.outcomes # <<>>
          /\ f.outcomes[Len(f.outcomes)] = "data"
    /\ f.pc = "raised" =>
          /\ Len(f.outcomes) = 3
          /\ f.outcomes[3] # "data"
    /\ (f.outcomes # <<>> /\ f.outcomes[Len(f.outcomes)] = "empty") =>
          /\ f.pc # "returned"
          /\ Len(f.outcomes) = 3 => f.pc = "raised"

FetchEnded(f) == f.pc \in {"returned", "raised"}

(* C24: _fetch_single_symbol_data_with_retry calls get_market_data at most *)
(* 3 times, returns at the first call that gives data, takes an empty      *)
(* result for a failure, raises after the third failure, and every call    *)
(* of it ends.                                                             *)
C24_RetriesBoundedAndEnd ==
    /\ [](\A i \in DOMAIN bulk_fetch.futures :
             RetryBounded(bulk_fetch.futures[i]))
    /\ <>(\A i \in DOMAIN bulk_fetch.futures :
             FetchEnded(bulk_fetch.futures[i]))

(* One fetch has raised after an empty result and two exceptions, another  *)
(* has returned the data of its second call.                               *)
C24_Witness ==
    /\ bulk_fetch.pc = "returned"
    /\ \E i, j \in DOMAIN bulk_fetch.futures :
          /\ bulk_fetch.futures[i].pc = "raised"
          /\ bulk_fetch.futures[i].outcomes = <<"empty", "raise", "raise">>
          /\ bulk_fetch.futures[j].pc = "returned"
          /\ bulk_fetch.futures[j].outcomes = <<"raise", "data">>

(***************************************************************************)
(* Properties of the order of the combinations                             *)
(***************************************************************************)
(* The parameters of a combination from the outermost to the innermost     *)
(* iteration.                                                              *)
IterationKey(c) ==
    << c.macd_fast, c.macd_slow, c.macd_signal, c.sma_length, c.tp_base,
       c.stop_loss >>

(* a is before b in nested iteration with every parameter ascending: the   *)
(* first parameter in which they differ is smaller in a.                   *)
IteratedBefore(a, b) ==
    \E n \in 1..6 :
        /\ \A m \in 1..(n - 1) : IterationKey(a)[m] = IterationKey(b)[m]
        /\ IterationKey(a)[n] < IterationKey(b)[n]

(* C31: the combinations are returned in nested-iteration order fast,      *)
(* slow, signal, trend, tp_base, stop_loss (fast outermost), each          *)
(* ascending, and a second call with the same ranges returns the same      *)
(* list in the same order.                                                 *)
C31_NestedOrderRepeatable ==
    LET returned == generation.valid_combinations
    IN  /\ generation.pc \in {"returned", "repeated"} =>
              \A j \in 1..(Len(returned) - 1) :
                  IteratedBefore(returned[j], returned[j + 1])
        /\ generation.pc = "repeated" => returned = generation.earlier

(* A second call has returned a list in which the innermost parameter      *)
(* falls back to its minimum where an outer one advances.                  *)
C31_Witness ==
    /\ generation.pc = "repeated"
    /\ \E j \in 1..(Len(generation.valid_combinations) - 1) :
          /\ generation.valid_combinations[j].macd_fast
                < generation.valid_combinations[j + 1].macd_fast
          /\ generation.valid_combinations[j].stop_loss
                > generation.valid_combinations[j + 1].stop_loss

(***************************************************************************)
(* Properties of the combinations cache                                    *)
(***************************************************************************)
(* Call j repeats call i: it returns the same list and does not run the    *)
(* generator.                                                              *)
ServedFromCache(i, j) ==
    /\ combo_cache.history[j].returned = combo_cache.history[i].returned
    /\ ~combo_cache.history[j].generated

(* C32: a call of _get_or_generate_combinations whose range specification  *)
(* equals that of an earlier call returns the same list in the same order  *)
(* as the earlier call and does not run generate_parameter_combinations    *)
(* again, also when the list is empty.                                     *)
C32_GeneratedOncePerSpecification ==
    combo_cache.pc = "idle" =>
        \A j \in DOMAIN combo_cache.history : \A i \in 1..(j - 1) :
            RangesValue(combo_cache.history[i].param_ranges)
              = RangesValue(combo_cache.history[j].param_ranges)
            => ServedFromCache(i, j)

(* The same for a call in whose param_ranges every range is written as in  *)
(* those of the earlier call, item for item, the names in any order.       *)
GeneratedOncePerWrittenSpecification ==
    combo_cache.pc = "idle" =>
        \A j \in DOMAIN combo_cache.history : \A i \in 1..(j - 1) :
            DictValue(combo_cache.history[i].param_ranges)
              = DictValue(combo_cache.history[j].param_ranges)
            => ServedFromCache(i, j)

(***************************************************************************)
(* Properties of the market data cache                                     *)
(***************************************************************************)
DayHours == 24

(* The last call was a load that found an entry older than 1 day. *)
LoadFoundOlderThanADay ==
    /\ market_data.pc = "idle"
    /\ market_data.last.op \in {"load_cached_data", "load_bulk_symbol_data"}
    /\ market_data.last.found # Absent
    /\ market_data.last.found.age > DayHours

(* The entry the last load looked at is gone and nothing was returned. *)
RemovedNotServed ==
    /\ market_data.last.returned = "None"
    /\ market_data.last.op = "load_cached_data" =>
          market_data.last.path \notin DOMAIN market_data.files
    /\ market_data.last.op = "load_bulk_symbol_data" =>
          market_data.last.path[1] \notin DOMAIN market_data.bulk_files

(* C33: load_cached_data and load_bulk_symbol_data remove a cache entry     *)
(* that is more than 1 day (24 hours) old and return nothing.              *)
C33_OlderThanADayIsStale ==
    LoadFoundOlderThanADay => RemovedNotServed

(* The same for an entry of 2 days or more. *)
TwoDaysOldIsStale ==
    (LoadFoundOlderThanADay /\ market_data.last.found.age >= 2 * DayHours)
        => RemovedNotServed

(* What a step of get_market_data for key has to do, klines being what     *)
(* the source gives when it is called.  hit: the entry of the key is of    *)
(* at most 1 whole day and has rows.                                       *)
GetMarketDataContract(key, klines) ==
    LET cache_path == GetCacheFilename(key)
        found == Found(market_data.files, cache_path)
        hit == found # Absent /\ Days(found.age) <= 1 /\ found.rows = "data"
        call == market_data'.last
    IN  /\ hit => /\ call.fetches = 0
                  /\ call.returned = "data"
                  /\ market_data'.files = market_data.files
        /\ ~hit => call.fetches = 1
        /\ (~hit /\ klines = "data") =>
              /\ call.returned = "data"
              /\ Found(market_data'.files, cache_path) = CacheFile(0, "data")
        /\ (~hit /\ klines # "data") =>
              /\ call.returned = "raise"
              /\ Found(market_data'.files, cache_path) \in {Absent, found}
        /\ \A p \in (DOMAIN market_data.files
                        \cup DOMAIN market_data'.files) \ {cache_path} :
              Found(market_data'.files, p) = Found(market_data.files, p)
        /\ market_data'.bulk_files = market_data.bulk_files
        /\ call.read \subseteq {cache_path}
        /\ (/\ market_data.last.op = "get_market_data"
            /\ market_data.last.path = cache_path
            /\ market_data.last.returned = "data") => call.fetches = 0

BatchIsNextSlice(r) ==
    LET size == Min(2 * runs[r].max_workers, 20)
        from == runs[r].batch_index
        valid_symbols == runs[r].valid_symbols
    IN  /\ from % size = 0
        /\ from < Len(valid_symbols)
        /\ runs[r].batch_symbols
              = [p \in 1..Min(size, Len(valid_symbols) - from) |->
                    valid_symbols[from + p]]

(* Between two batches no optimization of a symbol is queued or running. *)
NoOptimizationLeft(r) ==
    \A i \in Futures : tasks[r, i].state \notin {"queued", "running"}

WithinWorkers(r) ==
    /\ Cardinality(RunningTasks(r)) <= runs[r].max_workers
    /\ \A i \in Futures :
          Cardinality(RunningCombos(r, i)) <= Min(4, runs[r].max_workers)

(* The loop over the batches goes on by the size of a batch and, unless    *)
(* the run is stopped, to the end of the valid symbols.                    *)
BatchLoopStep(r) ==
    LET size == Min(2 * runs[r].max_workers, 20)
    IN  /\ (runs[r].pc = "fetch" /\ runs'[r].pc = "batch_loop") =>
              runs'[r].batch_index = 0
        /\ (runs[r].pc = "as_completed" /\ runs'[r].pc = "batch_loop") =>
              runs'[r].batch_index = runs[r].batch_index + size
        /\ (runs[r].pc = "batch_loop" /\ runs'[r].pc = "finally"
              /\ is_running) =>
              runs[r].batch_index >= Len(runs[r].valid_symbols)

(* C35: the valid symbols are split into consecutive disjoint batches of    *)
(* min(2 * max_workers, 20) symbols that cover each of them once; a batch  *)
(* starts only when every optimization of the batch before it has          *)
(* finished; no more than max_workers optimizations of symbols are in      *)
(* progress, each with no more than min(4, max_workers) backtests.         *)
C35_BatchesAndWorkers ==
    /\ [](\A r \in RunIds :
             /\ runs[r].pc = "as_completed" => BatchIsNextSlice(r)
             /\ runs[r].pc = "batch_loop" => NoOptimizationLeft(r)
             /\ WithinWorkers(r))
    /\ [][\A r \in RunIds : BatchLoopStep(r)]_allvars

(* With max_workers 2 the batch of four symbols is under way: two          *)
(* optimizations are in progress, one of them with two backtests running,  *)
(* and a symbol waits for a worker.                                        *)
C35_Witness ==
    \E r \in RunIds :
        /\ runs[r].pc = "as_completed"
        /\ runs[r].max_workers = 2
        /\ Len(runs[r].batch_symbols) = 4
        /\ Cardinality(RunningTasks(r)) = 2
        /\ \E i \in Futures : Cardinality(RunningCombos(r, i)) = 2
        /\ \E i \in Futures : tasks[r, i].state = "queued"

(* With max_workers 1 the third batch, of the one symbol left, is under    *)
(* way.                                                                    *)
LastBatchOfOne ==
    \E r \in RunIds :
        /\ runs[r].pc = "as_completed"
        /\ runs[r].max_workers = 1
        /\ runs[r].batch_index = 4
        /\ runs[r].batch_symbols = <<"E">>

(***************************************************************************)
(* Properties of the signals                                               *)
(***************************************************************************)
(* The row has a strength below 0.2 and a signal. *)
WeakWithSignal(row) ==
    /\ 5 * row.signal_strength.n < row.signal_strength.d
    /\ row.signal # 0

(* C36: in every row of the frame that generate_signals returns, a         *)
(* signal_strength below 0.2 goes with signal 0, also in the first 19      *)
(* rows.                                                                   *)
C36_WeakSignalIsZero ==
    signal_call.pc = "returned" =>
        \A i \in DOMAIN signal_call.signals :
            ~WeakWithSignal(signal_call.signals[i])

(* The same for the rows in which the rolling means are defined. *)
WeakSignalIsZeroAfterWindow ==
    signal_call.pc = "returned" =>
        \A i \in DOMAIN signal_call.signals :
            i >= StrengthWindow => ~WeakWithSignal(signal_call.signals[i])

(* Some call returns a signal in a row in which the means are defined,     *)
(* another one has such a signal filtered.                                 *)
SignalKeptAfterWindow ==
    /\ signal_call.pc = "returned"
    /\ \E i \in DOMAIN signal_call.signals :
          i >= StrengthWindow /\ signal_call.signals[i].signal # 0

(***************************************************************************)
(* Properties of runs that overlap                                         *)
(***************************************************************************)
(* The thread of run `later` was created after the thread of run r and is  *)
(* still executing its run.                                                *)
LaterRunWorks(r, later) == r < later /\ later \in ActiveRuns

(* The step is the finally clause of run r and leaves is_running alone. *)
FinallyKeepsFlag(r) ==
    RunFinally(r) \/ SvcFinally(r) => is_running' = is_running

(* The step is the finally clause of run r and leaves current_symbol       *)
(* alone.                                                                  *)
FinallyKeepsSymbol(r) == RunFinally(r) => current_symbol' = current_symbol

(* The step is the completion loop of run r and appends to neither list. *)
NoLateAppend(r) ==
    \A i \in Futures, save_success \in BOOLEAN :
        HandleCompletion(r, i, save_success) =>
            /\ completed_symbols' = completed_symbols
            /\ failed_symbols' = failed_symbols

(* C37: while a later run is working, the end of an earlier run neither    *)
(* sets is_running to false nor clears current_symbol, and the completion  *)
(* loop of the earlier run appends nothing to completed_symbols and        *)
(* failed_symbols.                                                         *)
C37_LaterRunUndisturbed ==
    [][\A r \in RunIds, later \in RunIds :
          LaterRunWorks(r, later) =>
              /\ FinallyKeepsFlag(r)
              /\ FinallyKeepsSymbol(r)
              /\ NoLateAppend(r)]_allvars

(***************************************************************************)
(* Properties of the position record                                       *)
(***************************************************************************)
RECURSIVE RatPow(_, _)
RatPow(x, k) == IF k = 0 THEN Rat(1, 1) ELSE RatMul(x, RatPow(x, k - 1))

(* size, direction and remaining_size of an open position. *)
OpenPositionSound(pos) ==
    /\ pos.size.n > 0
    /\ pos.direction \in {1, -1}
    /\ pos.remaining_size.n > 0
    /\ ~RatLess(pos.size, pos.remaining_size)
    /\ pos.remaining_size =
          RatMul(pos.size,
                 RatPow(Rat(100 - tp_close_percent, 100), Len(pos.tps_hit)))

(* The fields of a flat position. *)
FlatPositionReset(pos) ==
    /\ pos.size = Zero
    /\ pos.direction = 0
    /\ pos.remaining_size = Zero
    /\ pos.trailing_stop = 0
    /\ pos.sl_level = 0
    /\ pos.tp_levels = <<>>
    /\ pos.tps_hit = <<>>

(* The balance with which the position was opened: the balance of the     *)
(* equity record of its entry bar.                                         *)
FundedAtOpen(pos) ==
    pos.entry_time # None => equity_curve[pos.entry_time].balance > 0

(* The fields of the position are sound when it was opened with a balance  *)
(* above 0.                                                                *)
PositionSoundWhenFunded ==
    FundedAtOpen(position) =>
        IF IsOpen(position) THEN OpenPositionSound(position)
        ELSE FlatPositionReset(position)

(* A position that has had a partial close is open, after a loss that      *)
(* exceeded the balance.                                                   *)
PartlyClosedAfterLoss ==
    /\ IsOpen(position)
    /\ Len(position.tps_hit) > 0
    /\ \E i \in DOMAIN equity_curve : equity_curve[i].balance < 0

(* C38: an open position has a size above 0, direction 1 or -1 and         *)
(* 0 < remaining_size <= size with remaining_size = size * (1 - tp_close)  *)
(* ^ k after k TP hits, and was opened with a balance above 0; a flat      *)
(* position has size, direction, remaining_size, trailing_stop and         *)
(* sl_level 0 and empty tp_levels and tps_hit; after any sequence of       *)
(* bars, also after a loss that exceeds the balance.                       *)
C38_PositionInvariant ==
    /\ [](IF IsOpen(position) THEN OpenPositionSound(position)
          ELSE FlatPositionReset(position))
    /\ [][OpenedThisBar' => balance' > 0]_vars

(***************************************************************************)
(* Properties of the trade records                                         *)
(***************************************************************************)
(* The record that the step appends to results['trades']. *)
AppendedTrade == trades'[Len(trades')]

(* The iteration begins flat: no exit check is made, nothing is closed and *)
(* no record is appended, whether or not it opens a position.              *)
NoExitOnFlatBar ==
    ~IsOpen(position) => ~should_close' /\ trades' = trades

(* A record that the iteration appends carries the entry time and the      *)
(* entry price of the position that was open when the iteration began.     *)
RecordOfOpenPosition ==
    Len(trades') > Len(trades) =>
        /\ AppendedTrade.entry_time = position.entry_time
        /\ AppendedTrade.entry_price = position.entry_price
        /\ AppendedTrade.exit_time = timestamp'

(* A position that the iteration leaves open, or closes in part, keeps its *)
(* entry time and entry price.                                             *)
EntryKept ==
    IsOpen(position) /\ ~FullCloseThisBar' =>
        /\ position'.entry_time = position.entry_time
        /\ position'.entry_price = position.entry_price

(* C39: no exit check is made on the bar on which a position is opened:    *)
(* every trade record has an exit_time later than its entry_time, and the  *)
(* records of the partial closes of a position carry the entry time and    *)
(* the entry price of that position.                                       *)
C39_ExitAfterEntryBar ==
    /\ [](\A i \in DOMAIN trades :
             trades[i].exit_time > trades[i].entry_time)
    /\ [][BarStep =>
             NoExitOnFlatBar /\ RecordOfOpenPosition /\ EntryKept]_vars

(* Two partial closes of one position, on the two bars after its entry,    *)
(* and the position is still open.                                         *)
C39_Witness ==
    /\ IsOpen(position)
    /\ Len(trades) >= 2
    /\ trades[Len(trades) - 1].exit_reason = "TP1"
    /\ trades[Len(trades)].exit_reason = "TP2"
    /\ trades[Len(trades) - 1].entry_time = position.entry_time
    /\ trades[Len(trades)].entry_time = position.entry_time
    /\ trades[Len(trades) - 1].exit_time = position.entry_time + 1
    /\ trades[Len(trades)].exit_time = position.entry_time + 2

====
